---- MODULE Spec2Model ----
(***************************************************************************)
(* Navigation store of the cinematic drill-down visualization              *)
(* (store/navigationStore.ts) together with the timers that drive it:      *)
(* the setTimeout closures of goBack and explodeInstrument and the         *)
(* phase-advance effect of the mounted view (SelectionView or              *)
(* ParticleVisualization, chosen by Scene).                                *)
(*                                                                         *)
(* Time is kept as the remaining delay of every pending timer, in          *)
(* milliseconds; Tick lets TimeStep milliseconds pass.                     *)
(***************************************************************************)
EXTENDS Integers, Sequences, FiniteSets, TLC

(***************************************************************************)
(* Program constants                                                       *)
(***************************************************************************)
SelectingDelay == 200
MovingDelay == 300
SplittingDelay == 400
CollapseDelay == 400
ExplodeDelay == 300
DefaultSpacing == 30            \* contributionSpacing 0.3, in hundredths

MinSpacing == 5                 \* 0.05
MaxSpacing == 40                \* 0.4

(***************************************************************************)
(* Bounds of the model                                                     *)
(***************************************************************************)
MaxCollapseTimers == 1          \* pending goBack timers
MaxExplodeTimers == 1           \* pending explodeInstrument timers
OffsetScale == 2                \* carouselOffset is kept in 1/OffsetScale

TimeStep == ExplodeDelay - SelectingDelay

Null == "null"

Min(a, b) == IF a < b THEN a ELSE b
Max(a, b) == IF a > b THEN a ELSE b

(***************************************************************************)
(* The hierarchies handed to initialize.  A DataNode is modelled by its    *)
(* id; children[n] is its child list, HasChildrenField the nodes whose     *)
(* children property is present (m2 carries an empty array).               *)
(***************************************************************************)
NodeIds == {"p1", "p2", "a1", "a2", "m1", "m2", "q1", "b1",
            "d1", "c1", "r1", "i1"}

children ==
  [n \in NodeIds |->
     CASE n = "p1" -> <<"a1", "a2">>
       [] n = "a1" -> <<"m1", "m2">>
       [] n = "q1" -> <<"b1">>
       [] n = "d1" -> <<"c1">>
       [] n = "c1" -> <<"r1">>
       [] n = "r1" -> <<"i1">>
       [] OTHER -> << >>]

HasChildrenField == {n \in NodeIds : children[n] # << >>} \cup {"m2"}

Hierarchies == { <<"p1", "p2">>, <<"q1">> }

\* a hierarchy of full depth: portfolio, asset class, market, instrument
DeepHierarchies == { <<"d1">> }

\* ids a caller may pass: every node id and one id of no node
IdArgs == {"p1", "a1", "m1", "q1", "b1", "zz"}

Views == {"SelectionView", "ParticleVisualization"}

VARIABLES
  \* NavigationState
  rootNodes, currentLevel, selectionPath, currentNodes, animationPhase,
  animatingNodeId, hoveredNodeId, viewMode, explodedInstrumentId,
  contributionSpacing, selectedContributionId, focusedNodeIndex,
  carouselOffset,
  \* pending timers
  collapseTimers,      \* goBack closures: [rem, path, roots, target, stale]
  explodeTimers,       \* explodeInstrument closures: [rem, stale]
  viewTimers,          \* per view: the phase-advance timer [phase, rem]
  \* the component tree
  mounted,             \* Stage (and so Scene) is mounted
  visualizationMode,   \* 'bars' | 'particles'
  \* particle store
  particles,           \* the particle list, or Untracked
  formationState,      \* FormationState of the particle store, or Untracked
  _assetClass,         \* per node: the field extractInstruments adds
  \* formation calculators
  call,                \* the calculator call made last and what it returned
  \* environment and history
  quiet,               \* no further command will be issued
  seq,                 \* the descend/collapse sequence being followed
  lastOp               \* the operation that produced this state

navVars == <<rootNodes, currentLevel, selectionPath, currentNodes,
             animationPhase, animatingNodeId, hoveredNodeId, viewMode,
             explodedInstrumentId, contributionSpacing,
             selectedContributionId, focusedNodeIndex, carouselOffset>>

structVars == <<currentLevel, selectionPath, currentNodes, animationPhase>>

timerVars == <<collapseTimers, explodeTimers, viewTimers>>

vars == <<rootNodes, currentLevel, selectionPath, currentNodes,
          animationPhase, animatingNodeId, hoveredNodeId, viewMode,
          explodedInstrumentId, contributionSpacing,
          selectedContributionId, focusedNodeIndex, carouselOffset,
          collapseTimers, explodeTimers, viewTimers, mounted,
          visualizationMode, particles, formationState, _assetClass, call,
          quiet, seq, lastOp>>

\* the particle store and what lies outside the navigation store
particleVars == <<particles, formationState, _assetClass>>

(***************************************************************************)
(* Helpers                                                                 *)
(***************************************************************************)
IdsOf(nodes) == {nodes[i] : i \in 1..Len(nodes)}

\* nodes.find((n) => n.id === id): the node, or Null for undefined
Find(nodes, id) == IF id \in IdsOf(nodes) THEN id ELSE Null

\* !node.children || node.children.length === 0
IsLeaf(n) == n \notin HasChildrenField \/ Len(children[n]) = 0

\* Math.round of an offset kept in 1/OffsetScale (halves round up)
Round(x) == (2 * x + OffsetScale) \div (2 * OffsetScale)

NoTimer == [phase |-> "idle", rem |-> 0]

NoSeq == [kind |-> "none", stage |-> "none", node |-> Null, level |-> 0,
          path |-> << >>, target |-> 0]

\* Scene with the bars hidden while an instrument is exploded
ShownViewsUnlessExploded(m, mode, level, exploded) ==
  IF ~m THEN {}
  ELSE LET isExploded == exploded # Null
           showParticles == mode = "particles" /\ level >= 1 /\ level <= 3
                            /\ ~isExploded
           showBars == level = 0 \/ level > 3 \/ mode = "bars"
       IN  (IF showParticles THEN {"ParticleVisualization"} ELSE {})
           \cup (IF showBars THEN {"SelectionView"} ELSE {})

\* Scene: which timer-driving views are rendered
ShownViews(m, mode, level, exploded) ==
  IF ~m THEN {}
  ELSE LET isExploded == exploded # Null
           showParticles == mode = "particles" /\ level >= 1 /\ level <= 3
                            /\ ~isExploded
           showBars == level = 0 \/ level > 3 \/ mode = "bars" \/ isExploded
       IN  (IF showParticles THEN {"ParticleVisualization"} ELSE {})
           \cup (IF showBars THEN {"SelectionView"} ELSE {})

\* TimerFor without the branch of the splitting phase
TimerForTwoStages(phase) ==
  CASE phase = "selecting" -> [phase |-> "selecting", rem |-> SelectingDelay]
    [] phase = "moving"    -> [phase |-> "moving", rem |-> MovingDelay]
    [] OTHER -> [phase |-> "idle", rem |-> 0]

\* the timer the phase-advance effect schedules for a phase
TimerFor(phase) ==
  CASE phase = "selecting" -> [phase |-> "selecting", rem |-> SelectingDelay]
    [] phase = "moving"    -> [phase |-> "moving", rem |-> MovingDelay]
    [] phase = "splitting" -> [phase |-> "splitting", rem |-> SplittingDelay]
    [] OTHER -> NoTimer

\* useEffect(..., [animationPhase]): a view keeps its timer while it stays
\* mounted and the phase is the same; cleanup clears it otherwise and the
\* effect body schedules the timer of the new phase.
EffectSync(old, oldShown, oldPhase, newShown, newPhase) ==
  [v \in Views |->
     IF v \notin newShown THEN NoTimer
     ELSE IF v \in oldShown /\ newPhase = oldPhase THEN old[v]
     ELSE TimerFor(newPhase)]

Shown == ShownViews(mounted, visualizationMode, currentLevel,
                    explodedInstrumentId)

(***************************************************************************)
(* Particle store: the particle list made from the instruments of a        *)
(* hierarchy.  The store is followed only in runs that start with it       *)
(* (InitParticle); in the other runs it is left out (Untracked).           *)
(***************************************************************************)
Untracked == "untracked"

\* node.metadata.type
NodeType ==
  [n \in NodeIds |->
     CASE n \in {"p1", "p2", "q1", "d1"} -> "portfolio"
       [] n \in {"a1", "a2", "c1"} -> "assetClass"
       [] n = "r1" -> "market"
       [] OTHER -> "instrument"]

\* node.assetClassType of the asset class nodes
NodeAssetClass ==
  [n \in {"a1", "a2", "c1"} |->
     IF n = "a2" THEN "fixed-income" ELSE "equities"]

AssetClasses == <<"equities", "fixed-income", "alternatives">>

RECURSIVE Traverse(_, _), TraverseAll(_, _)
\* traverse(node, assetClass) of extractInstruments: the instruments below
\* node, each with the asset class it inherits
Traverse(node, assetClass) ==
  LET currentAssetClass == IF NodeType[node] = "assetClass"
                             THEN NodeAssetClass[node] ELSE assetClass
      own == IF NodeType[node] = "instrument"
               THEN << [nodeId |-> node, assetClass |-> currentAssetClass] >>
               ELSE << >>
  IN  own \o (IF node \in HasChildrenField
                THEN TraverseAll(children[node], currentAssetClass)
                ELSE << >>)

TraverseAll(nodes, assetClass) ==
  IF nodes = << >> THEN << >>
  ELSE Traverse(Head(nodes), assetClass)
         \o TraverseAll(Tail(nodes), assetClass)

ExtractInstruments(nodes) == TraverseAll(nodes, Null)

\* instruments of one asset class, in the order found ('equities' when the
\* instrument inherited none)
OfAssetClass(instruments, assetClass) ==
  SelectSeq(instruments,
            LAMBDA inst : (IF inst.assetClass = Null THEN "equities"
                           ELSE inst.assetClass) = assetClass)

\* nodeToParticle
NodeToParticle(inst, assetClass) ==
  [id |-> "particle-" \o inst.nodeId, nodeId |-> inst.nodeId,
   assetClass |-> assetClass]

ParticlesOfClass(instruments, assetClass) ==
  LET group == OfAssetClass(instruments, assetClass)
  IN  [i \in DOMAIN group |-> NodeToParticle(group[i], assetClass)]

\* the particle list useParticleStore.initialize(rootNodes) stores
ParticleStoreInitialize(roots) ==
  LET instruments == ExtractInstruments(roots)
  IN  ParticlesOfClass(instruments, AssetClasses[1])
        \o ParticlesOfClass(instruments, AssetClasses[2])
        \o ParticlesOfClass(instruments, AssetClasses[3])

\* the particle-initialization effect of ParticleVisualization, run with
\* the state after a step
InitializeParticlesEffect(shown, roots, path, current) ==
  IF "ParticleVisualization" \in shown /\ Len(roots) > 0 /\ Len(current) = 0
    THEN LET selectedPortfolio == IF Len(path) > 0 THEN path[1].node
                                  ELSE roots[1]
         IN  ParticleStoreInitialize(<<selectedPortfolio>>)
    ELSE current

(***************************************************************************)
(* Formation state of the particle store and the effects of                *)
(* ParticleVisualization that drive it.  Progress values are kept in       *)
(* 1/ProgressScale; frame deltas and durations in milliseconds.            *)
(***************************************************************************)
PortfolioToGalaxy == 2000
GalaxyToGlobe == 1500
GlobeToNebula == 2500
NebulaToExploded == 1200

ProgressScale == 60

FormationTypes == {"galaxy", "globe", "nebula", "exploded"}

\* the _assetClass field of a node that extractInstruments never visited
Absent == "absent"

\* formationState in the runs that leave the formation state out
UntrackedFormation == [currentFormation |-> Untracked]

\* no calculator has been called
NoCall == [fn |-> "none"]

initialFormationState ==
  [currentFormation |-> "galaxy", targetFormation |-> "galaxy",
   transitionProgress |-> 0, isTransitioning |-> FALSE,
   selectedGalaxy |-> Null, selectedRegion |-> Null,
   isUnfolding |-> FALSE, unfoldProgress |-> 0,
   selectedParticleId |-> Null]

\* ClampProgress without the upper end
ClampProgressBelow(progress) == Max(0, progress)

\* Math.max(0, Math.min(1, progress))
ClampProgress(progress) == Max(0, Min(ProgressScale, progress))

\* the formationState each store command sets, from the state fs
SetFormationOn(fs, formation) ==
  [fs EXCEPT !.currentFormation = formation, !.targetFormation = formation,
             !.transitionProgress = 0, !.isTransitioning = FALSE]

StartTransitionOn(fs, targetFormation) ==
  [fs EXCEPT !.targetFormation = targetFormation,
             !.transitionProgress = 0, !.isTransitioning = TRUE]

UpdateTransitionProgressOn(fs, progress) ==
  [fs EXCEPT !.transitionProgress = ClampProgress(progress)]

\* CompleteTransitionOn without the write of currentFormation
CompleteTransitionKeepsCurrent(fs) ==
  [fs EXCEPT !.transitionProgress = ProgressScale,
             !.isTransitioning = FALSE]

CompleteTransitionOn(fs) ==
  [fs EXCEPT !.currentFormation = fs.targetFormation,
             !.transitionProgress = ProgressScale,
             !.isTransitioning = FALSE]

\* node.label, and the fragments label.toLowerCase() includes among those
\* the view looks for
NodeLabel ==
  [n \in NodeIds |->
     CASE n \in {"a1", "c1"} -> "Equities"
       [] n = "a2" -> "Fixed Income"
       [] n = "r1" -> "Europe"
       [] n \in {"p1", "p2", "q1", "d1"} -> "Growth Portfolio"
       [] OTHER -> "Siemens"]

LabelIncludes(label, fragment) ==
  \/ label = "Equities" /\ fragment = "equit"
  \/ label = "Fixed Income" /\ fragment \in {"fixed", "income"}
  \/ label = "Europe" /\ fragment = "europ"

\* node.region, Null where the field is absent
NodeRegion == [n \in NodeIds |-> IF n = "i1" THEN "europe" ELSE Null]

levelToFormation(level) ==
  CASE level = 1 -> "galaxy"
    [] level = 2 -> "globe"
    [] level = 3 -> "nebula"
    [] OTHER -> "galaxy"

getAssetClassFromNode(node) ==
  LET label == NodeLabel[node]
  IN  IF LabelIncludes(label, "equit") THEN "equities"
      ELSE IF \/ LabelIncludes(label, "fixed")
              \/ LabelIncludes(label, "income")
              \/ LabelIncludes(label, "bond") THEN "fixed-income"
      ELSE IF LabelIncludes(label, "alt") THEN "alternatives"
      ELSE Null

getRegionFromNode(node) ==
  LET label == NodeLabel[node]
  IN  IF NodeRegion[node] # Null THEN NodeRegion[node]
      ELSE IF \/ LabelIncludes(label, "us")
              \/ LabelIncludes(label, "north america") THEN "north-america"
      ELSE IF LabelIncludes(label, "europ") THEN "europe"
      ELSE IF LabelIncludes(label, "asia") THEN "asia"
      ELSE IF LabelIncludes(label, "emerg") THEN "emerging-markets"
      ELSE Null

getTransitionDuration(from, to) ==
  IF from = "galaxy" /\ to = "globe" THEN GalaxyToGlobe
  ELSE IF from = "globe" /\ to = "nebula" THEN GlobeToNebula
  ELSE IF from = "nebula" /\ to = "exploded" THEN NebulaToExploded
  ELSE PortfolioToGalaxy

\* the formation sync effect: rendered is the formationState the render
\* saw, fs the state of the store when the effect runs
FormationSyncEffect(level, rendered, fs) ==
  IF level >= 1 /\ level <= 3
       /\ rendered.currentFormation # levelToFormation(level)
    THEN StartTransitionOn(fs, levelToFormation(level))
    ELSE fs

\* the filter sync effect
FilterSyncEffect(level, path, fs) ==
  LET galaxy == IF level = 2 /\ Len(path) >= 2
                  THEN [fs EXCEPT !.selectedGalaxy =
                                     getAssetClassFromNode(path[2].node)]
                  ELSE fs
  IN  IF level = 3 /\ Len(path) >= 3
        THEN [galaxy EXCEPT !.selectedRegion =
                               getRegionFromNode(path[3].node)]
        ELSE galaxy

\* useFrame without the call of completeTransition
FrameAdvanceWithoutEnd(fs, delta) ==
  IF fs.isTransitioning
    THEN LET duration == getTransitionDuration(fs.currentFormation,
                                               fs.targetFormation)
             progressDelta == (delta * ProgressScale) \div duration
             newProgress == fs.transitionProgress + progressDelta
         IN  UpdateTransitionProgressOn(fs, newProgress)
    ELSE fs

\* the useFrame callback of ParticleVisualization, delta in milliseconds
FrameAdvance(fs, delta) ==
  IF fs.isTransitioning
    THEN LET duration == getTransitionDuration(fs.currentFormation,
                                               fs.targetFormation)
             progressDelta == (delta * ProgressScale) \div duration
             newProgress == fs.transitionProgress + progressDelta
         IN  IF newProgress >= ProgressScale
               THEN CompleteTransitionOn(fs)
               ELSE UpdateTransitionProgressOn(fs, newProgress)
    ELSE fs

\* ResyncFormation for an effect that does not depend on currentFormation
ResyncNever(level, rendered, fs) == fs

\* the formation sync effect runs again when the render that follows a
\* change of the store sees another currentFormation
ResyncFormation(level, rendered, fs) ==
  IF fs.currentFormation # rendered.currentFormation
    THEN FormationSyncEffect(level, fs, fs)
    ELSE fs

\* the _assetClass fields after extractInstruments(nodes)
TagInstruments(tags, nodes) ==
  LET instruments == ExtractInstruments(nodes)
      visited == {instruments[i].nodeId : i \in DOMAIN instruments}
  IN  [n \in NodeIds |->
         IF n \in visited
           THEN LET i == CHOOSE j \in DOMAIN instruments :
                           instruments[j].nodeId = n
                IN  instruments[i].assetClass
           ELSE tags[n]]

\* whether the particle-initialization effect calls initialize
InitializesParticles(shown, roots, current) ==
  "ParticleVisualization" \in shown /\ Len(roots) > 0 /\ Len(current) = 0

\* the three store effects of ParticleVisualization after a step of the
\* navigation store, in the order of the component: fs is formationState
\* before them
ParticleViewEffects(newShown, fs) ==
  IF "ParticleVisualization" \notin newShown THEN fs
  ELSE LET fresh == "ParticleVisualization" \notin Shown
           levelChanged == currentLevel' # currentLevel
           pathChanged == selectionPath' # selectionPath
           initialized ==
             IF /\ InitializesParticles(newShown, rootNodes', particles)
                /\ (fresh \/ pathChanged \/ rootNodes' # rootNodes)
               THEN initialFormationState ELSE fs
           synced ==
             IF fresh \/ levelChanged
               THEN FormationSyncEffect(currentLevel', fs, initialized)
               ELSE initialized
           filtered ==
             IF fresh \/ levelChanged \/ pathChanged
               THEN FilterSyncEffect(currentLevel', selectionPath', synced)
               ELSE synced
       IN  ResyncFormation(currentLevel', fs, filtered)

\* the views' effects after a step; timersNow is viewTimers less a timer
\* that has just fired, nowMounted whether Stage is mounted after the step
SyncViews(timersNow, nowMounted) ==
  LET newShown == ShownViews(nowMounted, visualizationMode, currentLevel',
                             explodedInstrumentId')
  IN  /\ viewTimers' = EffectSync(timersNow, Shown, animationPhase, newShown,
                                  animationPhase')
      /\ particles' = IF particles = Untracked THEN Untracked
                      ELSE InitializeParticlesEffect(newShown, rootNodes',
                                                     selectionPath', particles)
      /\ _assetClass' =
           IF /\ particles # Untracked
              /\ InitializesParticles(newShown, rootNodes', particles)
             THEN TagInstruments(_assetClass,
                                 << IF Len(selectionPath') > 0
                                      THEN selectionPath'[1].node
                                      ELSE rootNodes'[1] >>)
             ELSE _assetClass
      /\ formationState' = IF formationState = UntrackedFormation
                             THEN UntrackedFormation
                           ELSE ParticleViewEffects(newShown, formationState)
      /\ call' = call

MarkStale(timers) ==
  [i \in DOMAIN timers |-> [timers[i] EXCEPT !.stale = TRUE]]

RemoveAt(s, i) == SubSeq(s, 1, i - 1) \o SubSeq(s, i + 1, Len(s))

(***************************************************************************)
(* Initial state: initialState of the store, nothing mounted               *)
(***************************************************************************)
InitStore ==
  /\ rootNodes = << >>
  /\ currentLevel = 0
  /\ selectionPath = << >>
  /\ currentNodes = << >>
  /\ animationPhase = "idle"
  /\ animatingNodeId = Null
  /\ hoveredNodeId = Null
  /\ viewMode = "value"
  /\ explodedInstrumentId = Null
  /\ contributionSpacing = DefaultSpacing
  /\ selectedContributionId = Null
  /\ focusedNodeIndex = 0
  /\ carouselOffset = 0
  /\ collapseTimers = << >>
  /\ explodeTimers = << >>
  /\ viewTimers = [v \in Views |-> NoTimer]
  /\ mounted = FALSE
  /\ visualizationMode \in {"bars", "particles"}
  /\ quiet = FALSE
  /\ seq = NoSeq

\* nothing outside the navigation store is followed
InitRest ==
  /\ formationState = UntrackedFormation
  /\ _assetClass = [n \in NodeIds |-> Absent]
  /\ call = NoCall

Init ==
  /\ InitStore
  /\ InitRest
  /\ particles = Untracked
  /\ lastOp = "off"

\* the same initial states, with every operation recorded in lastOp
InitObserved ==
  /\ InitStore
  /\ InitRest
  /\ particles = Untracked
  /\ lastOp = "init"

\* the same initial states, with the particle store (particles: [])
InitParticle ==
  /\ InitStore
  /\ InitRest
  /\ particles = << >>
  /\ lastOp = "off"

\* lastOp records the operation that produced a state when the run is
\* observed (lastOp starts as "init"), and stays "off" otherwise
Note(op) == lastOp' = IF lastOp = "off" THEN "off" ELSE op

\* a command that is refused: nothing changes
Rejected(op) ==
  /\ Note(op)
  /\ UNCHANGED <<navVars, timerVars, mounted, visualizationMode, particles,
                 formationState, _assetClass, call, quiet, seq>>

(***************************************************************************)
(* Store commands                                                          *)
(***************************************************************************)
\* the state written by initialize(roots)
InitializeSet(roots) ==
  /\ rootNodes' = roots
  /\ currentNodes' = roots
  /\ currentLevel' = 0
  /\ selectionPath' = << >>
  /\ animationPhase' = "idle"
  /\ animatingNodeId' = Null
  /\ UNCHANGED <<hoveredNodeId, viewMode, explodedInstrumentId,
                 contributionSpacing, selectedContributionId,
                 focusedNodeIndex, carouselOffset>>

Initialize(roots) ==
  /\ ~quiet
  /\ InitializeSet(roots)
  /\ collapseTimers' = MarkStale(collapseTimers)
  /\ explodeTimers' = MarkStale(explodeTimers)
  /\ SyncViews(viewTimers, mounted)
  /\ seq' = NoSeq
  /\ Note("initialize")
  /\ UNCHANGED <<mounted, visualizationMode, quiet>>

\* Stage renders: it initializes the store when the store has no root nodes
Mount(data) ==
  /\ ~quiet
  /\ ~mounted
  /\ mounted' = TRUE
  /\ IF Len(rootNodes) = 0 /\ Len(data) > 0
       THEN /\ InitializeSet(data)
            /\ collapseTimers' = MarkStale(collapseTimers)
            /\ explodeTimers' = MarkStale(explodeTimers)
       ELSE UNCHANGED <<navVars, collapseTimers, explodeTimers>>
  /\ SyncViews(viewTimers, TRUE)
  /\ seq' = NoSeq
  /\ Note("mount")
  /\ UNCHANGED <<visualizationMode, quiet>>

\* the component tree is torn down: effect cleanups clear the views' timers
Unmount ==
  /\ ~quiet
  /\ mounted
  /\ mounted' = FALSE
  /\ collapseTimers' = MarkStale(collapseTimers)
  /\ explodeTimers' = MarkStale(explodeTimers)
  /\ SyncViews(viewTimers, FALSE)
  /\ seq' = NoSeq
  /\ Note("unmount")
  /\ UNCHANGED <<navVars, visualizationMode, quiet>>

\* selectNode without the guard on animationPhase
SelectNodeAnyPhase(nodeId) ==
  /\ ~quiet
  /\ Find(currentNodes, nodeId) # Null
  /\ ~IsLeaf(nodeId)
  /\ animationPhase' = "selecting"
  /\ animatingNodeId' = nodeId
  /\ UNCHANGED <<rootNodes, currentLevel, selectionPath, currentNodes,
                 hoveredNodeId, viewMode, explodedInstrumentId,
                 contributionSpacing, selectedContributionId,
                 focusedNodeIndex, carouselOffset>>
  /\ UNCHANGED <<collapseTimers, explodeTimers>>
  /\ SyncViews(viewTimers, mounted)
  /\ seq' = [kind |-> "descend", stage |-> "selecting", node |-> nodeId,
             level |-> currentLevel, path |-> selectionPath,
             target |-> currentLevel + 1]
  /\ Note("selectNode")
  /\ UNCHANGED <<mounted, visualizationMode, quiet>>

\* selectNode taking a node for a leaf only when it has no children field
SelectNodeLeafByField(nodeId) ==
  /\ ~quiet
  /\ LET selectedNode == Find(currentNodes, nodeId) IN
     IF animationPhase # "idle" \/ selectedNode = Null
       THEN Rejected("selectNode.rejected")
     ELSE IF selectedNode \notin HasChildrenField
       THEN /\ hoveredNodeId' = nodeId
            /\ UNCHANGED <<rootNodes, currentLevel, selectionPath,
                           currentNodes, animationPhase, animatingNodeId,
                           viewMode, explodedInstrumentId,
                           contributionSpacing, selectedContributionId,
                           focusedNodeIndex, carouselOffset>>
            /\ UNCHANGED <<collapseTimers, explodeTimers>>
            /\ SyncViews(viewTimers, mounted)
            /\ seq' = NoSeq
            /\ Note("selectNode.leaf")
            /\ UNCHANGED <<mounted, visualizationMode, quiet>>
     ELSE   /\ animationPhase' = "selecting"
            /\ animatingNodeId' = nodeId
            /\ UNCHANGED <<rootNodes, currentLevel, selectionPath,
                           currentNodes, hoveredNodeId, viewMode,
                           explodedInstrumentId, contributionSpacing,
                           selectedContributionId, focusedNodeIndex,
                           carouselOffset>>
            /\ UNCHANGED <<collapseTimers, explodeTimers>>
            /\ SyncViews(viewTimers, mounted)
            /\ seq' = [kind |-> "descend", stage |-> "selecting",
                       node |-> nodeId, level |-> currentLevel,
                       path |-> selectionPath, target |-> currentLevel + 1]
            /\ Note("selectNode")
            /\ UNCHANGED <<mounted, visualizationMode, quiet>>

SelectNode(nodeId) ==
  /\ ~quiet
  /\ LET selectedNode == Find(currentNodes, nodeId) IN
     IF animationPhase # "idle" \/ selectedNode = Null
       THEN Rejected("selectNode.rejected")
     ELSE IF IsLeaf(selectedNode)
       THEN /\ hoveredNodeId' = nodeId
            /\ UNCHANGED <<rootNodes, currentLevel, selectionPath,
                           currentNodes, animationPhase, animatingNodeId,
                           viewMode, explodedInstrumentId,
                           contributionSpacing, selectedContributionId,
                           focusedNodeIndex, carouselOffset>>
            /\ UNCHANGED <<collapseTimers, explodeTimers>>
            /\ SyncViews(viewTimers, mounted)
            /\ seq' = NoSeq
            /\ Note("selectNode.leaf")
            /\ UNCHANGED <<mounted, visualizationMode, quiet>>
     ELSE   /\ animationPhase' = "selecting"
            /\ animatingNodeId' = nodeId
            /\ UNCHANGED <<rootNodes, currentLevel, selectionPath,
                           currentNodes, hoveredNodeId, viewMode,
                           explodedInstrumentId, contributionSpacing,
                           selectedContributionId, focusedNodeIndex,
                           carouselOffset>>
            /\ UNCHANGED <<collapseTimers, explodeTimers>>
            /\ SyncViews(viewTimers, mounted)
            /\ seq' = [kind |-> "descend", stage |-> "selecting",
                       node |-> nodeId, level |-> currentLevel,
                       path |-> selectionPath, target |-> currentLevel + 1]
            /\ Note("selectNode")
            /\ UNCHANGED <<mounted, visualizationMode, quiet>>

LevelArgs == -1 .. 2

\* the state written by goBack when it is accepted
GoBackSet(targetLevel) ==
  /\ animationPhase' = "collapsing"
  /\ animatingNodeId' = IF targetLevel + 1 \in DOMAIN selectionPath
                          THEN selectionPath[targetLevel + 1].node
                          ELSE Null
  /\ UNCHANGED <<rootNodes, currentLevel, selectionPath, currentNodes,
                 hoveredNodeId, viewMode, explodedInstrumentId,
                 contributionSpacing, selectedContributionId,
                 focusedNodeIndex, carouselOffset>>

\* setTimeout(() => {...}, 400) of goBack: the closure keeps the state read
\* at the call and the target level
GoBackTimer(targetLevel) ==
  [rem |-> CollapseDelay, path |-> selectionPath, roots |-> rootNodes,
   target |-> targetLevel, stale |-> FALSE]

\* goBack without the check of the target against the current level
GoBackTargetAnyLevel(targetLevel) ==
  IF animationPhase # "idle" \/ currentLevel = 0 \/ targetLevel < 0
    THEN Rejected("goBack.rejected")
  ELSE /\ Len(collapseTimers) < MaxCollapseTimers
       /\ GoBackSet(targetLevel)
       /\ collapseTimers' = Append(collapseTimers, GoBackTimer(targetLevel))
       /\ UNCHANGED explodeTimers
       /\ SyncViews(viewTimers, mounted)
       /\ seq' = [kind |-> "collapse", stage |-> "collapsing",
                  node |-> Null, level |-> currentLevel,
                  path |-> selectionPath, target |-> targetLevel]
       /\ Note("goBack")
       /\ UNCHANGED <<mounted, visualizationMode, quiet>>

GoBackTarget(targetLevel) ==
  IF animationPhase # "idle" \/ currentLevel = 0
     \/ targetLevel < 0 \/ targetLevel >= currentLevel
    THEN Rejected("goBack.rejected")
  ELSE /\ Len(collapseTimers) < MaxCollapseTimers
       /\ GoBackSet(targetLevel)
       /\ collapseTimers' = Append(collapseTimers, GoBackTimer(targetLevel))
       /\ UNCHANGED explodeTimers
       /\ SyncViews(viewTimers, mounted)
       /\ seq' = [kind |-> "collapse", stage |-> "collapsing",
                  node |-> Null, level |-> currentLevel,
                  path |-> selectionPath, target |-> targetLevel]
       /\ Note("goBack")
       /\ UNCHANGED <<mounted, visualizationMode, quiet>>

GoBack(toLevel) ==
  /\ ~quiet
  /\ GoBackTarget(toLevel)

\* goBack() without argument: toLevel ?? currentLevel - 1
GoBackDefault ==
  /\ ~quiet
  /\ GoBackTarget(currentLevel - 1)

\* reset without clearing the exploded instrument
ResetKeepsExploded ==
  /\ currentLevel' = 0
  /\ selectionPath' = << >>
  /\ currentNodes' = rootNodes
  /\ animationPhase' = "idle"
  /\ animatingNodeId' = Null
  /\ hoveredNodeId' = Null
  /\ selectedContributionId' = Null
  /\ contributionSpacing' = DefaultSpacing
  /\ focusedNodeIndex' = 0
  /\ carouselOffset' = 0
  /\ UNCHANGED <<rootNodes, viewMode, explodedInstrumentId>>

ResetSet ==
  /\ currentLevel' = 0
  /\ selectionPath' = << >>
  /\ currentNodes' = rootNodes
  /\ animationPhase' = "idle"
  /\ animatingNodeId' = Null
  /\ hoveredNodeId' = Null
  /\ explodedInstrumentId' = Null
  /\ selectedContributionId' = Null
  /\ contributionSpacing' = DefaultSpacing
  /\ focusedNodeIndex' = 0
  /\ carouselOffset' = 0
  /\ UNCHANGED <<rootNodes, viewMode>>

Reset ==
  /\ ~quiet
  /\ ResetSet
  /\ collapseTimers' = MarkStale(collapseTimers)
  /\ explodeTimers' = MarkStale(explodeTimers)
  /\ SyncViews(viewTimers, mounted)
  /\ seq' = NoSeq
  /\ Note("reset")
  /\ UNCHANGED <<mounted, visualizationMode, quiet>>

\* setAnimationPhase(phase)
SetAnimationPhase(phase) ==
  /\ animationPhase' = phase
  /\ UNCHANGED <<rootNodes, currentLevel, selectionPath, currentNodes,
                 animatingNodeId, hoveredNodeId, viewMode,
                 explodedInstrumentId, contributionSpacing,
                 selectedContributionId, focusedNodeIndex, carouselOffset>>

\* completeAnimation without the reset of the carousel
CompleteAnimationKeepsCarousel ==
  IF animationPhase = "splitting"
    THEN LET selectedNode == Find(currentNodes, animatingNodeId) IN
         IF selectedNode # Null /\ selectedNode \in HasChildrenField
           THEN /\ currentLevel' = currentLevel + 1
                /\ selectionPath' = Append(selectionPath,
                                           [node |-> selectedNode,
                                            level |-> currentLevel])
                /\ currentNodes' = children[selectedNode]
                /\ animationPhase' = "idle"
                /\ animatingNodeId' = Null
                /\ hoveredNodeId' = Null
                /\ UNCHANGED <<rootNodes, viewMode, explodedInstrumentId,
                               contributionSpacing, selectedContributionId,
                               focusedNodeIndex, carouselOffset>>
           ELSE UNCHANGED navVars
    ELSE /\ animationPhase' = "idle"
         /\ animatingNodeId' = Null
         /\ UNCHANGED <<rootNodes, currentLevel, selectionPath,
                        currentNodes, hoveredNodeId, viewMode,
                        explodedInstrumentId, contributionSpacing,
                        selectedContributionId, focusedNodeIndex,
                        carouselOffset>>

\* completeAnimation()
CompleteAnimationSet ==
  IF animationPhase = "splitting"
    THEN LET selectedNode == Find(currentNodes, animatingNodeId) IN
         IF selectedNode # Null /\ selectedNode \in HasChildrenField
           THEN /\ currentLevel' = currentLevel + 1
                /\ selectionPath' = Append(selectionPath,
                                           [node |-> selectedNode,
                                            level |-> currentLevel])
                /\ currentNodes' = children[selectedNode]
                /\ animationPhase' = "idle"
                /\ animatingNodeId' = Null
                /\ focusedNodeIndex' = 0
                /\ hoveredNodeId' = Null
                /\ carouselOffset' = 0
                /\ UNCHANGED <<rootNodes, viewMode, explodedInstrumentId,
                               contributionSpacing, selectedContributionId>>
           ELSE UNCHANGED navVars
    ELSE /\ animationPhase' = "idle"
         /\ animatingNodeId' = Null
         /\ UNCHANGED <<rootNodes, currentLevel, selectionPath,
                        currentNodes, hoveredNodeId, viewMode,
                        explodedInstrumentId, contributionSpacing,
                        selectedContributionId, focusedNodeIndex,
                        carouselOffset>>

\* completeAnimation() called directly on the store
CompleteAnimation ==
  /\ ~quiet
  /\ CompleteAnimationSet
  /\ UNCHANGED <<collapseTimers, explodeTimers>>
  /\ SyncViews(viewTimers, mounted)
  /\ seq' = NoSeq
  /\ Note("completeAnimation")
  /\ UNCHANGED <<mounted, visualizationMode, quiet>>

ExplodeInstrumentSet(instrumentId) ==
  /\ explodedInstrumentId' = instrumentId
  /\ animationPhase' = "selecting"
  /\ UNCHANGED <<rootNodes, currentLevel, selectionPath, currentNodes,
                 animatingNodeId, hoveredNodeId, viewMode,
                 contributionSpacing, selectedContributionId,
                 focusedNodeIndex, carouselOffset>>

ExplodeInstrument(instrumentId) ==
  /\ ~quiet
  /\ LET instrument == Find(currentNodes, instrumentId) IN
     IF animationPhase # "idle" \/ instrument = Null \/ IsLeaf(instrument)
       THEN Rejected("explodeInstrument.rejected")
     ELSE /\ Len(explodeTimers) < MaxExplodeTimers
          /\ ExplodeInstrumentSet(instrumentId)
          /\ explodeTimers' = Append(explodeTimers,
                                     [rem |-> ExplodeDelay, stale |-> FALSE])
          /\ UNCHANGED collapseTimers
          /\ SyncViews(viewTimers, mounted)
          /\ seq' = [kind |-> "explode", stage |-> "selecting",
                     node |-> instrumentId, level |-> currentLevel,
                     path |-> selectionPath, target |-> currentLevel]
          /\ Note("explodeInstrument")
          /\ UNCHANGED <<mounted, visualizationMode, quiet>>

\* collapseInstrument without the reset of the spacing
CollapseInstrumentKeepsSpacing ==
  /\ ~quiet
  /\ explodedInstrumentId' = Null
  /\ selectedContributionId' = Null
  /\ UNCHANGED <<rootNodes, currentLevel, selectionPath, currentNodes,
                 animationPhase, animatingNodeId, hoveredNodeId, viewMode,
                 contributionSpacing, focusedNodeIndex, carouselOffset>>
  /\ UNCHANGED <<collapseTimers, explodeTimers>>
  /\ SyncViews(viewTimers, mounted)
  /\ seq' = NoSeq
  /\ Note("collapseInstrument")
  /\ UNCHANGED <<mounted, visualizationMode, quiet>>

CollapseInstrument ==
  /\ ~quiet
  /\ explodedInstrumentId' = Null
  /\ selectedContributionId' = Null
  /\ contributionSpacing' = DefaultSpacing
  /\ UNCHANGED <<rootNodes, currentLevel, selectionPath, currentNodes,
                 animationPhase, animatingNodeId, hoveredNodeId, viewMode,
                 focusedNodeIndex, carouselOffset>>
  /\ UNCHANGED <<collapseTimers, explodeTimers>>
  /\ SyncViews(viewTimers, mounted)
  /\ seq' = NoSeq
  /\ Note("collapseInstrument")
  /\ UNCHANGED <<mounted, visualizationMode, quiet>>

\* scroll deltas, in 1/OffsetScale
DeltaArgs == {-1, OffsetScale}

\* scrollCarousel refused during an animation
ScrollCarouselWhenIdle(delta) ==
  /\ ~quiet
  /\ LET count == Len(currentNodes) IN
     IF count = 0 \/ animationPhase # "idle"
       THEN Rejected("scrollCarousel.rejected")
     ELSE LET newOffset == carouselOffset + delta
              clampedOffset == Max(0, Min((count - 1) * OffsetScale,
                                          newOffset))
              index == Round(clampedOffset)
          IN /\ carouselOffset' = clampedOffset
             /\ focusedNodeIndex' = index
             /\ hoveredNodeId' = IF index + 1 \in DOMAIN currentNodes
                                   THEN currentNodes[index + 1] ELSE Null
             /\ UNCHANGED <<rootNodes, currentLevel, selectionPath,
                            currentNodes, animationPhase, animatingNodeId,
                            viewMode, explodedInstrumentId,
                            contributionSpacing, selectedContributionId>>
             /\ UNCHANGED <<collapseTimers, explodeTimers>>
             /\ SyncViews(viewTimers, mounted)
             /\ seq' = NoSeq
             /\ Note("scrollCarousel")
             /\ UNCHANGED <<mounted, visualizationMode, quiet>>

ScrollCarousel(delta) ==
  /\ ~quiet
  /\ LET count == Len(currentNodes) IN
     IF count = 0 THEN Rejected("scrollCarousel.rejected")
     ELSE LET newOffset == carouselOffset + delta
              clampedOffset == Max(0, Min((count - 1) * OffsetScale,
                                          newOffset))
              index == Round(clampedOffset)
          IN /\ carouselOffset' = clampedOffset
             /\ focusedNodeIndex' = index
             /\ hoveredNodeId' = IF index + 1 \in DOMAIN currentNodes
                                   THEN currentNodes[index + 1] ELSE Null
             /\ UNCHANGED <<rootNodes, currentLevel, selectionPath,
                            currentNodes, animationPhase, animatingNodeId,
                            viewMode, explodedInstrumentId,
                            contributionSpacing, selectedContributionId>>
             /\ UNCHANGED <<collapseTimers, explodeTimers>>
             /\ SyncViews(viewTimers, mounted)
             /\ seq' = NoSeq
             /\ Note("scrollCarousel")
             /\ UNCHANGED <<mounted, visualizationMode, quiet>>

(***************************************************************************)
(* Auxiliary commands                                                      *)
(***************************************************************************)
\* what a command that starts no timer leaves alone or brings about
NoTimerStarted ==
  /\ UNCHANGED <<collapseTimers, explodeTimers>>
  /\ SyncViews(viewTimers, mounted)
  /\ seq' = NoSeq
  /\ UNCHANGED <<mounted, visualizationMode, quiet>>

ViewModes == {"value", "contribution"}

SetViewMode(mode) ==
  /\ ~quiet
  /\ viewMode' = mode
  /\ UNCHANGED <<rootNodes, currentLevel, selectionPath, currentNodes,
                 animationPhase, animatingNodeId, hoveredNodeId,
                 explodedInstrumentId, contributionSpacing,
                 selectedContributionId, focusedNodeIndex, carouselOffset>>
  /\ NoTimerStarted
  /\ Note("setViewMode")

\* spacings a caller may pass, in hundredths
SpacingArgs == {-500, MinSpacing - 1, 20, MaxSpacing + 1, 99900}

\* the clamp without its lower bound
ClampSpacingAbove(spacing) == Min(MaxSpacing, spacing)

\* Math.max(0.05, Math.min(0.4, spacing))
ClampSpacing(spacing) == Max(MinSpacing, Min(MaxSpacing, spacing))

SetContributionSpacing(spacing) ==
  /\ ~quiet
  /\ contributionSpacing' = ClampSpacing(spacing)
  /\ UNCHANGED <<rootNodes, currentLevel, selectionPath, currentNodes,
                 animationPhase, animatingNodeId, hoveredNodeId, viewMode,
                 explodedInstrumentId, selectedContributionId,
                 focusedNodeIndex, carouselOffset>>
  /\ NoTimerStarted
  /\ Note("setContributionSpacing")

ContributionArgs == {Null, "c1"}

SelectContribution(contributionId) ==
  /\ ~quiet
  /\ selectedContributionId' = contributionId
  /\ UNCHANGED <<rootNodes, currentLevel, selectionPath, currentNodes,
                 animationPhase, animatingNodeId, hoveredNodeId, viewMode,
                 explodedInstrumentId, contributionSpacing,
                 focusedNodeIndex, carouselOffset>>
  /\ NoTimerStarted
  /\ Note("selectContribution")

\* offsets a caller may pass, in 1/OffsetScale
OffsetArgs == {-1, 1, OffsetScale, 3 * OffsetScale}

\* the clamp without its upper bound
ClampOffsetBelow(count, offset) == Max(0, offset)

\* Math.max(0, Math.min(count - 1, offset)), offsets in 1/OffsetScale
ClampOffset(count, offset) == Max(0, Min((count - 1) * OffsetScale, offset))

SetCarouselOffset(offset) ==
  /\ ~quiet
  /\ carouselOffset' = ClampOffset(Len(currentNodes), offset)
  /\ UNCHANGED <<rootNodes, currentLevel, selectionPath, currentNodes,
                 animationPhase, animatingNodeId, hoveredNodeId, viewMode,
                 explodedInstrumentId, contributionSpacing,
                 selectedContributionId, focusedNodeIndex>>
  /\ NoTimerStarted
  /\ Note("setCarouselOffset")

(***************************************************************************)
(* Commands of the particle store (useParticleStore) and the frame         *)
(* callback of ParticleVisualization.  They leave the navigation store     *)
(* and its timers alone.                                                   *)
(***************************************************************************)
outsideParticleStore == <<navVars, timerVars, mounted, visualizationMode,
                          call, quiet, seq>>

\* formationState after a command set it to fs: a mounted
\* ParticleVisualization renders again and its formation sync effect runs
\* if currentFormation changed
AfterRender(fs) ==
  IF "ParticleVisualization" \in Shown
    THEN ResyncFormation(currentLevel, formationState, fs)
    ELSE fs

\* a command that sets formationState only
SetsFormationState(fs, op) ==
  /\ formationState # UntrackedFormation
  /\ formationState' = AfterRender(fs)
  /\ Note(op)
  /\ UNCHANGED <<outsideParticleStore, particles, _assetClass>>

InitializeParticles(roots) ==
  /\ ~quiet
  /\ formationState # UntrackedFormation
  /\ particles # Untracked
  /\ particles' = ParticleStoreInitialize(roots)
  /\ formationState' = AfterRender(initialFormationState)
  /\ _assetClass' = TagInstruments(_assetClass, roots)
  /\ Note("initializeParticles")
  /\ UNCHANGED outsideParticleStore

SetFormation(formation) ==
  /\ ~quiet
  /\ SetsFormationState(SetFormationOn(formationState, formation),
                        "setFormation")

StartTransition(targetFormation) ==
  /\ ~quiet
  /\ SetsFormationState(StartTransitionOn(formationState, targetFormation),
                        "startTransition")

\* progress arguments: below, at the ends of, inside and above [0, 1]
ProgressArgs == {0 - ProgressScale, 0, ProgressScale \div 2, ProgressScale,
                 2 * ProgressScale}

UpdateTransitionProgress(progress) ==
  /\ ~quiet
  /\ SetsFormationState(UpdateTransitionProgressOn(formationState, progress),
                        "updateTransitionProgress")

CompleteTransition ==
  /\ ~quiet
  /\ SetsFormationState(CompleteTransitionOn(formationState),
                        "completeTransition")

GalaxyArgs == {Null, "equities", "fixed-income"}

SelectGalaxy(assetClass) ==
  /\ ~quiet
  /\ SetsFormationState([formationState EXCEPT !.selectedGalaxy = assetClass],
                        "selectGalaxy")

RegionArgs == {Null, "europe"}

SelectRegion(region) ==
  /\ ~quiet
  /\ SetsFormationState([formationState EXCEPT !.selectedRegion = region],
                        "selectRegion")

StartUnfolding ==
  /\ ~quiet
  /\ SetsFormationState([formationState EXCEPT !.isUnfolding = TRUE,
                                               !.unfoldProgress = 0],
                        "startUnfolding")

UpdateUnfoldProgress(progress) ==
  /\ ~quiet
  /\ SetsFormationState([formationState EXCEPT
                           !.unfoldProgress = ClampProgress(progress)],
                        "updateUnfoldProgress")

\* the time between two frames, in milliseconds: a slow frame, and one
\* that lasts as long as the longest transition
FrameDeltas == {GlobeToNebula \div 5, GlobeToNebula}

\* one frame of the mounted ParticleVisualization
Frame(delta) ==
  /\ "ParticleVisualization" \in Shown
  /\ SetsFormationState(FrameAdvance(formationState, delta), "frame")

(***************************************************************************)
(* Timers                                                                  *)
(***************************************************************************)
PendingRems ==
  {collapseTimers[i].rem : i \in DOMAIN collapseTimers}
  \cup {explodeTimers[i].rem : i \in DOMAIN explodeTimers}
  \cup {viewTimers[v].rem : v \in {w \in Views : viewTimers[w] # NoTimer}}

Elapse(t) == [t EXCEPT !.rem = Max(0, t.rem - TimeStep)]

\* TimeStep milliseconds pass; no timer is overdue
Tick ==
  /\ PendingRems # {}
  /\ \A r \in PendingRems : r > 0
  /\ collapseTimers' = [i \in DOMAIN collapseTimers |->
                          Elapse(collapseTimers[i])]
  /\ explodeTimers' = [i \in DOMAIN explodeTimers |->
                         Elapse(explodeTimers[i])]
  /\ viewTimers' = [v \in Views |->
                      IF viewTimers[v] = NoTimer THEN NoTimer
                      ELSE Elapse(viewTimers[v])]
  /\ Note("tick")
  /\ UNCHANGED <<navVars, mounted, visualizationMode, particles,
                 formationState, _assetClass, call, quiet, seq>>

\* the next stage of the sequence being followed after a view's timer fired
NextStage(phase) ==
  CASE phase = "selecting" -> "moving"
    [] phase = "moving" -> "splitting"
    [] OTHER -> "done"

\* the phase-advance timer of view v fires
FireView(v) ==
  /\ viewTimers[v] # NoTimer
  /\ viewTimers[v].rem = 0
  /\ LET phase == viewTimers[v].phase IN
     /\ CASE phase = "selecting" -> SetAnimationPhase("moving")
          [] phase = "moving" -> SetAnimationPhase("splitting")
          [] OTHER -> CompleteAnimationSet
     /\ seq' = IF seq.kind \in {"descend", "explode"} /\ seq.stage = phase
                  /\ animationPhase' # animationPhase
                 THEN [seq EXCEPT !.stage = NextStage(phase)]
                 ELSE NoSeq
     /\ Note("timer." \o phase)
  /\ UNCHANGED <<collapseTimers, explodeTimers>>
  /\ SyncViews([viewTimers EXCEPT ![v] = NoTimer], mounted)
  /\ UNCHANGED <<mounted, visualizationMode, quiet>>

\* the goBack closure without the slice of the path
CollapseSettleKeepsPath(t) ==
  /\ currentLevel' = t.target
  /\ selectionPath' = t.path
  /\ currentNodes' = IF Len(t.path) > 0
                       THEN children[t.path[Len(t.path)].node]
                       ELSE t.roots
  /\ animationPhase' = "idle"
  /\ animatingNodeId' = Null
  /\ focusedNodeIndex' = 0
  /\ hoveredNodeId' = Null
  /\ carouselOffset' = 0
  /\ UNCHANGED <<rootNodes, viewMode, explodedInstrumentId,
                 contributionSpacing, selectedContributionId>>

\* the goBack closure falling back to the root nodes at every level
CollapseSettleToRoots(t) ==
  /\ currentLevel' = t.target
  /\ selectionPath' = SubSeq(t.path, 1, Min(t.target, Len(t.path)))
  /\ currentNodes' = t.roots
  /\ animationPhase' = "idle"
  /\ animatingNodeId' = Null
  /\ focusedNodeIndex' = 0
  /\ hoveredNodeId' = Null
  /\ carouselOffset' = 0
  /\ UNCHANGED <<rootNodes, viewMode, explodedInstrumentId,
                 contributionSpacing, selectedContributionId>>

\* the state written by the goBack closure t when its delay has elapsed
CollapseSettle(t) ==
  LET newPath == SubSeq(t.path, 1, Min(t.target, Len(t.path)))
      parentNode == IF Len(newPath) > 0 THEN newPath[Len(newPath)].node
                    ELSE Null
      newCurrentNodes == IF parentNode # Null
                            /\ parentNode \in HasChildrenField
                           THEN children[parentNode] ELSE t.roots
  IN /\ currentLevel' = t.target
     /\ selectionPath' = newPath
     /\ currentNodes' = newCurrentNodes
     /\ animationPhase' = "idle"
     /\ animatingNodeId' = Null
     /\ focusedNodeIndex' = 0
     /\ hoveredNodeId' = Null
     /\ carouselOffset' = 0
     /\ UNCHANGED <<rootNodes, viewMode, explodedInstrumentId,
                    contributionSpacing, selectedContributionId>>

FireCollapse(i) ==
  /\ i \in DOMAIN collapseTimers
  /\ collapseTimers[i].rem = 0
  /\ CollapseSettle(collapseTimers[i])
  /\ collapseTimers' = RemoveAt(collapseTimers, i)
  /\ UNCHANGED explodeTimers
  /\ SyncViews(viewTimers, mounted)
  /\ seq' = IF seq.kind = "collapse" /\ seq.stage = "collapsing"
               /\ i = Len(collapseTimers)
              THEN [seq EXCEPT !.stage = "done"]
              ELSE NoSeq
  /\ Note("timer.collapse")
  /\ UNCHANGED <<mounted, visualizationMode, quiet>>

\* setTimeout(() => set({ animationPhase: 'idle' }), 300) of explodeInstrument
FireExplode(i) ==
  /\ i \in DOMAIN explodeTimers
  /\ explodeTimers[i].rem = 0
  /\ SetAnimationPhase("idle")
  /\ explodeTimers' = RemoveAt(explodeTimers, i)
  /\ UNCHANGED collapseTimers
  /\ SyncViews(viewTimers, mounted)
  /\ seq' = IF seq.kind = "explode" /\ seq.stage # "done"
               /\ i = Len(explodeTimers)
              THEN [seq EXCEPT !.stage = "done"]
              ELSE NoSeq
  /\ Note("timer.explode")
  /\ UNCHANGED <<mounted, visualizationMode, quiet>>

\* the user stops interacting: from now on only timers run
Quiesce ==
  /\ ~quiet
  /\ quiet' = TRUE
  /\ UNCHANGED <<navVars, timerVars, mounted, visualizationMode, particles,
                 formationState, _assetClass, call, seq, lastOp>>

FireTimer ==
  \/ \E v \in Views : FireView(v)
  \/ \E i \in 1..MaxCollapseTimers : FireCollapse(i)
  \/ \E i \in 1..MaxExplodeTimers : FireExplode(i)

(***************************************************************************)
(* Specifications                                                          *)
(*                                                                         *)
(* Spec: the structural commands of the store, the component tree and      *)
(* the timers.  ObservedSpec: the same behaviours with the last operation  *)
(* recorded.  ScrollSpec: Spec with carousel scrolling, which writes only  *)
(* carouselOffset, focusedNodeIndex and hoveredNodeId.  LiveSpec: Spec     *)
(* with a user who may stop interacting, and timers that fire when due.    *)
(***************************************************************************)
Next ==
  \/ \E data \in Hierarchies : Mount(data)
  \/ Unmount
  \/ \E roots \in Hierarchies : Initialize(roots)
  \/ \E nodeId \in IdArgs : SelectNode(nodeId)
  \/ \E toLevel \in LevelArgs : GoBack(toLevel)
  \/ GoBackDefault
  \/ Reset
  \/ CompleteAnimation
  \/ \E instrumentId \in IdArgs : ExplodeInstrument(instrumentId)
  \/ CollapseInstrument
  \/ Tick
  \/ \E v \in Views : FireView(v)
  \/ \E i \in 1..MaxCollapseTimers : FireCollapse(i)
  \/ \E i \in 1..MaxExplodeTimers : FireExplode(i)

Spec == Init /\ [][Next]_vars

ObservedSpec == InitObserved /\ [][Next]_vars

NextScroll ==
  \/ Next
  \/ \E delta \in DeltaArgs : ScrollCarousel(delta)

ScrollSpec == Init /\ [][NextScroll]_vars

\* DetailSpec: the exploded-instrument detail (explodeInstrument,
\* collapseInstrument, view mode, spacing, selected contribution) on top of
\* a drill-down of the first hierarchy, with every operation recorded
DetailHierarchies == { <<"p1", "p2">>, << >> }

DetailIdArgs == {"a1", "zz"}

NextDetail ==
  \/ \E data \in DetailHierarchies : Mount(data)
  \/ \E roots \in DetailHierarchies : Initialize(roots)
  \/ \E nodeId \in NodeIds : SelectNode(nodeId)
  \/ GoBackDefault
  \/ Reset
  \/ \E instrumentId \in DetailIdArgs : ExplodeInstrument(instrumentId)
  \/ CollapseInstrument
  \/ \E mode \in ViewModes : SetViewMode(mode)
  \/ \E spacing \in SpacingArgs : SetContributionSpacing(spacing)
  \/ \E contributionId \in ContributionArgs : SelectContribution(contributionId)
  \/ Tick
  \/ \E v \in Views : FireView(v)
  \/ \E i \in 1..MaxCollapseTimers : FireCollapse(i)
  \/ \E i \in 1..MaxExplodeTimers : FireExplode(i)

DetailSpec == InitObserved /\ [][NextDetail]_vars

\* CarouselSpec: the carousel commands on top of a drill-down of every
\* hierarchy (sibling lists of 0, 1 and 2 nodes), with every operation
\* recorded
NextCarousel ==
  \/ \E data \in Hierarchies : Mount(data)
  \/ \E roots \in Hierarchies \cup {<< >>} : Initialize(roots)
  \/ \E nodeId \in NodeIds \cup {"zz"} : SelectNode(nodeId)
  \/ GoBackDefault
  \/ Reset
  \/ \E offset \in OffsetArgs : SetCarouselOffset(offset)
  \/ \E delta \in DeltaArgs : ScrollCarousel(delta)
  \/ Tick
  \/ \E v \in Views : FireView(v)
  \/ \E i \in 1..MaxCollapseTimers : FireCollapse(i)

CarouselSpec == InitObserved /\ [][NextCarousel]_vars

\* AuxSpec: the auxiliary commands together, in every animation phase of a
\* drill-down of the first hierarchy, with every operation recorded
AuxSpacingArgs == {MinSpacing - 1, 20}

NextAux ==
  \/ \E data \in DetailHierarchies : Mount(data)
  \/ \E roots \in DetailHierarchies : Initialize(roots)
  \/ \E nodeId \in NodeIds : SelectNode(nodeId)
  \/ GoBackDefault
  \/ \E mode \in ViewModes : SetViewMode(mode)
  \/ \E spacing \in AuxSpacingArgs : SetContributionSpacing(spacing)
  \/ \E offset \in OffsetArgs : SetCarouselOffset(offset)
  \/ \E delta \in DeltaArgs : ScrollCarousel(delta)
  \/ Tick
  \/ \E v \in Views : FireView(v)
  \/ \E i \in 1..MaxCollapseTimers : FireCollapse(i)

AuxSpec == InitObserved /\ [][NextAux]_vars

\* ParticleSpec: the drill-down with the particle store that
\* ParticleVisualization seeds
NextParticle ==
  \/ \E data \in Hierarchies : Mount(data)
  \/ Unmount
  \/ \E roots \in Hierarchies : Initialize(roots)
  \/ \E nodeId \in IdArgs : SelectNode(nodeId)
  \/ GoBackDefault
  \/ Reset
  \/ Tick
  \/ \E v \in Views : FireView(v)
  \/ \E i \in 1..MaxCollapseTimers : FireCollapse(i)

ParticleSpec == InitParticle /\ [][NextParticle]_vars

NextLive ==
  \/ Next
  \/ Quiesce

LiveSpec == Init /\ [][NextLive]_vars /\ WF_vars(Tick) /\ WF_vars(FireTimer)

\* the particle store with its commands called in any order
InitFormation ==
  /\ InitStore
  /\ particles = << >>
  /\ formationState = initialFormationState
  /\ _assetClass = [n \in NodeIds |-> Absent]
  /\ call = NoCall
  /\ lastOp = "init"

NextFormationStore ==
  \/ \E roots \in Hierarchies \cup DeepHierarchies : InitializeParticles(roots)
  \/ \E formation \in FormationTypes : SetFormation(formation)
  \/ \E formation \in FormationTypes : StartTransition(formation)
  \/ \E progress \in ProgressArgs : UpdateTransitionProgress(progress)
  \/ CompleteTransition
  \/ \E assetClass \in GalaxyArgs : SelectGalaxy(assetClass)
  \/ \E region \in RegionArgs : SelectRegion(region)
  \/ StartUnfolding
  \/ \E progress \in ProgressArgs : UpdateUnfoldProgress(progress)

FormationStoreSpec == InitFormation /\ [][NextFormationStore]_vars

\* the progress values: a mounted view that descends, its frames, and the
\* two progress commands
NextProgress ==
  \/ \E data \in DeepHierarchies : Mount(data)
  \/ \E nodeId \in {"d1", "c1", "r1"} : SelectNode(nodeId)
  \/ Tick
  \/ \E v \in Views : FireView(v)
  \/ \E delta \in FrameDeltas : Frame(delta)
  \/ \E progress \in ProgressArgs : UpdateTransitionProgress(progress)
  \/ StartUnfolding
  \/ \E progress \in ProgressArgs : UpdateUnfoldProgress(progress)

ProgressSpec == InitFormation /\ [][NextProgress]_vars

\* ParticleVisualization over the navigation store: the formation follows
\* the level, the filters follow the breadcrumb
NextFormation ==
  \/ \E data \in DeepHierarchies : Mount(data)
  \/ \E nodeId \in {"d1", "c1", "r1"} : SelectNode(nodeId)
  \/ GoBackDefault
  \/ Reset
  \/ Tick
  \/ \E v \in Views : FireView(v)
  \/ \E i \in 1..MaxCollapseTimers : FireCollapse(i)
  \/ \E delta \in FrameDeltas : Frame(delta)

FormationSpec == InitFormation /\ [][NextFormation]_vars

\* frames keep coming while the view is mounted
LiveFormationSpec ==
  /\ InitFormation
  /\ [][NextFormation]_vars
  /\ WF_vars(\E delta \in FrameDeltas : Frame(delta))

(***************************************************************************)
(* Formation calculators: pure functions from a particle list, a time and  *)
(* a progress to a map from particle id to position.  Numbers are fixed    *)
(* point: lengths and factors in thousandths, angles in hundredths of a    *)
(* radian, time in seconds, progress in steps of 1/ProgressSteps and eased *)
(* progress in steps of 1/EaseUnit.                                        *)
(***************************************************************************)
Milli == 1000
HalfTurn == 314
ProgressSteps == 4
EaseUnit == ProgressSteps * ProgressSteps * ProgressSteps * ProgressSteps

\* the product of two numbers in thousandths
Mul(a, b) == (a * b) \div Milli

\* Math.sin and Math.cos, by Bhaskara's rational approximation on a half turn
SinHalf(r) ==
  (16 * Milli * r * (HalfTurn - r))
    \div (5 * HalfTurn * HalfTurn - 4 * r * (HalfTurn - r))

Sin(x) ==
  LET r == x % (2 * HalfTurn)
  IN  IF r <= HalfTurn THEN SinHalf(r) ELSE 0 - SinHalf(r - HalfTurn)

Cos(x) == Sin(x + HalfTurn \div 2)

\* Math.exp, by the first terms of its series
ExpTerms == 8

RECURSIVE ExpFrom(_, _)
ExpFrom(x, n) ==
  IF n > ExpTerms THEN Milli
  ELSE Milli + (x * ExpFrom(x, n + 1)) \div (n * Milli)

Exp(x) == ExpFrom(x, 1)

\* the helper functions of the three calculator files
normalizeValue(value, min, max) ==
  Max(0, Min(Milli, ((value - min) * Milli) \div (max - min)))

ClampedLerp(a, b, t) == a + ((b - a) * Min(t, EaseUnit \div 2)) \div EaseUnit

lerp(a, b, t) == a + ((b - a) * t) \div EaseUnit

easeOutCubic(t) ==
  EaseUnit - ProgressSteps * (ProgressSteps - t) * (ProgressSteps - t)
                           * (ProgressSteps - t)

easeOutQuart(t) ==
  EaseUnit - (ProgressSteps - t) * (ProgressSteps - t)
           * (ProgressSteps - t) * (ProgressSteps - t)

easeInOutCubic(t) ==
  IF 2 * t < ProgressSteps
    THEN 4 * t * t * t * ProgressSteps
    ELSE EaseUnit - 4 * ProgressSteps * (ProgressSteps - t)
                      * (ProgressSteps - t) * (ProgressSteps - t)

\* sin(progress * PI)
ArcOf(progress) == Sin((progress * HalfTurn) \div ProgressSteps)

\* particle.id.charCodeAt(i): every id is `particle-${node.id}`, and the
\* calculators read the characters 5, 6 and 7 of it
IdPrefixCodes == <<112, 97, 114, 116, 105, 99, 108, 101, 45>>
CharCodeAt(id, i) == IdPrefixCodes[i + 1]

AssetClassTypes == <<"equities", "fixed-income", "alternatives">>

GALAXY_CONFIGS ==
  [ac \in {"equities", "fixed-income", "alternatives"} |->
     CASE ac = "equities" ->
            [center |-> <<0 - 3000, 1500, 0>>, radius |-> 2500,
             armCount |-> 3, armSpread |-> 800, rotationSpeed |-> 5]
       [] ac = "fixed-income" ->
            [center |-> <<3000, 1500, 0>>, radius |-> 1800,
             armCount |-> 2, armSpread |-> 600, rotationSpeed |-> 3]
       [] OTHER ->
            [center |-> <<0, 500, 0 - 2000>>, radius |-> 1200,
             armCount |-> 2, armSpread |-> 500, rotationSpeed |-> 4]]

GLOBE_CONFIG ==
  [center |-> <<0, 1500, 0>>, radius |-> 2500, rotationSpeed |-> 1]

NEBULA_CONFIG ==
  [center |-> <<0, 1500, 0>>, spread |-> <<4000, 3000, 2000>>,
   yAxisMetric |-> "value"]

REGION_COORDINATES ==
  [region \in {"north-america", "europe", "asia", "emerging-markets",
               "global", "unknown"} |->
     CASE region = "north-america" -> [lat |-> 40, long |-> 0 - 100]
       [] region = "europe" -> [lat |-> 50, long |-> 10]
       [] region = "asia" -> [lat |-> 35, long |-> 120]
       [] region = "emerging-markets" -> [lat |-> 0 - 15, long |-> 30]
       [] OTHER -> [lat |-> 0, long |-> 0]]

\* the particles nodeToParticle makes of three instruments
ParticlePool ==
  [m1 |-> [id |-> "particle-m1", value |-> 120, weight |-> 100,
           assetClass |-> "equities", region |-> "europe",
           latLong |-> [lat |-> 50, long |-> 10]],
   m2 |-> [id |-> "particle-m2", value |-> 40, weight |-> 300,
           assetClass |-> "equities", region |-> "asia",
           latLong |-> [lat |-> 35, long |-> 120]],
   b1 |-> [id |-> "particle-b1", value |-> 0 - 20, weight |-> 200,
           assetClass |-> "fixed-income", region |-> "global",
           latLong |-> [lat |-> 0, long |-> 0]]]

\* the entry a Map keeps for an id: the one set last
LastIndex(ps, id) ==
  CHOOSE i \in 1..Len(ps) :
    /\ ps[i].id = id
    /\ \A j \in (i + 1)..Len(ps) : ps[j].id # id

ParticleIds(ps) == { ps[i].id : i \in 1..Len(ps) }

\* GalaxyFormation.ts
calculateGalaxyPosition(index, totalParticles, config, time) ==
  LET armIndex == index % config.armCount
      particleInArm == index \div config.armCount
      totalInArm ==
        (totalParticles + config.armCount - 1) \div config.armCount
      armProgress == IF totalInArm > 1
                       THEN (particleInArm * Milli) \div (totalInArm - 1)
                       ELSE Milli \div 2
      baseAngle == (armIndex * 2 * HalfTurn) \div config.armCount
      spiralAngle == (armProgress * 3 * HalfTurn) \div Milli
      angle == baseAngle + spiralAngle + time * config.rotationSpeed
      spiralRadius == Mul(Mul(300, Exp(3 * spiralAngle)), config.radius)
      distance == Min(spiralRadius, config.radius)
      spreadFactor == Mul(config.armSpread, 500 + armProgress \div 2)
      randomAngleOffset ==
        Mul(Mul(Sin(index * 1299 + 7823), 500), spreadFactor)
      randomRadiusOffset ==
        Mul(Mul(Mul(Cos(index * 4376 + 2112), 500), spreadFactor), 300)
      finalAngle == angle + randomAngleOffset \div 10
      finalDistance == Mul(distance, Milli + randomRadiusOffset)
      heightVariation ==
        Mul(Mul(200, Milli - armProgress), Sin(index * 141))
  IN  << config.center[1] + Mul(Cos(finalAngle), finalDistance),
         config.center[2] + heightVariation,
         config.center[3] + Mul(Sin(finalAngle), finalDistance) >>

calculateGalaxyFormation(ps, time) ==
  [id \in ParticleIds(ps) |->
     LET p == ps[LastIndex(ps, id)]
         galaxyParticles ==
           SelectSeq(ps, LAMBDA q : q.assetClass = p.assetClass)
         index == LastIndex(galaxyParticles, id) - 1
     IN  calculateGalaxyPosition(index, Len(galaxyParticles),
                                 GALAXY_CONFIGS[p.assetClass], time)]

\* worldSimplified.ts
latLongToSphere(lat, long, radius) ==
  LET phi == ((90 - lat) * HalfTurn) \div 180
      theta == ((long + 180) * HalfTurn) \div 180
  IN  << 0 - Mul(Mul(radius, Sin(phi)), Cos(theta)),
         Mul(radius, Cos(phi)),
         Mul(Mul(radius, Sin(phi)), Sin(theta)) >>

\* GlobeFormation
calculateGlobePosition(particle, time) ==
  LET latLong == IF "latLong" \in DOMAIN particle
                   THEN particle.latLong
                   ELSE REGION_COORDINATES[particle.region]
      spherePos ==
        latLongToSphere(latLong.lat, latLong.long, GLOBE_CONFIG.radius)
      rotationAngle == time * GLOBE_CONFIG.rotationSpeed
      rotatedX == Mul(spherePos[1], Cos(rotationAngle))
                    - Mul(spherePos[3], Sin(rotationAngle))
      rotatedZ == Mul(spherePos[1], Sin(rotationAngle))
                    + Mul(spherePos[3], Cos(rotationAngle))
  IN  << GLOBE_CONFIG.center[1] + rotatedX,
         GLOBE_CONFIG.center[2] + spherePos[2],
         GLOBE_CONFIG.center[3] + rotatedZ >>

calculateGlobeFormation(ps, time) ==
  [id \in ParticleIds(ps) |-> calculateGlobePosition(ps[LastIndex(ps, id)], time)]

\* NebulaFormation
calculateNebulaPosition(particle, index, totalParticles, config, time) ==
  LET metricValue == IF config.yAxisMetric = "value"
                       THEN particle.value ELSE particle.weight
      normalizedMetric == normalizeValue(metricValue, 0 - 50, 200)
      yOffset == Mul(normalizedMetric - Milli \div 2, config.spread[2] * 2)
      last == IF totalParticles - 1 = 0 THEN 1 ELSE totalParticles - 1
      xBase == Mul((index * Milli) \div last - Milli \div 2,
                   config.spread[1] * 2)
      xJitter ==
        Mul(Mul(Sin(index * 240 + CharCodeAt(particle.id, 6) * 10),
                config.spread[1]), 200)
      zBase == Mul(Mul(Cos(index * 170 + 30), 500), config.spread[3])
      zJitter ==
        Mul(Mul(Cos(index * 310 + CharCodeAt(particle.id, 7) * 10),
                config.spread[3]), 300)
      floatX == Mul(Sin(time * 50 + index * 30), 50)
      floatY == Mul(Cos(time * 40 + index * 50), 80)
      floatZ == Mul(Sin(time * 30 + index * 70), 30)
  IN  << config.center[1] + xBase + xJitter + floatX,
         config.center[2] + yOffset + floatY,
         config.center[3] + zBase + zJitter + floatZ >>

\* [...particles].sort((a, b) => b.value - a.value): a stable sort of a copy
RECURSIVE InsertSorted(_, _)
InsertSorted(sorted, p) ==
  IF Len(sorted) = 0 THEN <<p>>
  ELSE IF p.value > Head(sorted).value THEN <<p>> \o sorted
  ELSE <<Head(sorted)>> \o InsertSorted(Tail(sorted), p)

RECURSIVE SortedParticles(_)
SortedParticles(ps) ==
  IF Len(ps) = 0 THEN << >>
  ELSE InsertSorted(SortedParticles(SubSeq(ps, 1, Len(ps) - 1)), ps[Len(ps)])

calculateNebulaFormation(ps, config, time) ==
  LET sortedParticles == SortedParticles(ps)
  IN  [id \in ParticleIds(ps) |->
         LET index == LastIndex(sortedParticles, id) - 1
         IN  calculateNebulaPosition(sortedParticles[index + 1], index,
                                     Len(sortedParticles), config, time)]

getRegionNebulaCenter(region) ==
  CASE region = "north-america" -> <<0 - 1000, 1500, 0>>
    [] region = "asia" -> <<1000, 1500, 0>>
    [] region = "emerging-markets" -> <<0, 1500, 500>>
    [] region \in {"europe", "global", "unknown"} -> <<0, 1500, 0>>
    [] OTHER -> NEBULA_CONFIG.center

\* the ids a transition positions: those with a start and an end position
Positioned(ps, startPositions) == ParticleIds(ps) \cap DOMAIN startPositions

calculateGalaxyToGlobe(ps, galaxyPositions, progress, time) ==
  LET globePositions == calculateGlobeFormation(ps, time)
      easedProgress == easeInOutCubic(progress)
      arcHeight == Mul(ArcOf(progress), 2000)
  IN  [id \in Positioned(ps, galaxyPositions) |->
         LET startPos == galaxyPositions[id]
             endPos == globePositions[id]
         IN  << lerp(startPos[1], endPos[1], easedProgress),
                lerp(startPos[2], endPos[2], easedProgress) + arcHeight,
                lerp(startPos[3], endPos[3], easedProgress) >>]

AllParticles(ps, selectedRegion) == ps

RelevantParticles(ps, selectedRegion) ==
  IF selectedRegion # Null
    THEN SelectSeq(ps, LAMBDA p : p.region = selectedRegion)
    ELSE ps

\* Math.random(): the next number of a generator whose state no argument
\* carries.  The generator is a cycle of draws and rng its position in the
\* cycle; a call draws three numbers for each particle it positions, in
\* the order of the list.
RandomCycle == <<0, 999, 250, 750>>

DrawAt(n) == RandomCycle[((n - 1) % Len(RandomCycle)) + 1]

DrawsFor(ps, startPositions, rng) ==
  [id \in Positioned(ps, startPositions) |->
     LET before ==
           Cardinality({ j \in 1..(LastIndex(ps, id) - 1) :
                           ps[j].id \in DOMAIN startPositions })
     IN  [c \in 1..3 |-> DrawAt(rng + 3 * before + c - 1)]]

AfterDraws(ps, startPositions, rng) ==
  ((rng - 1 + 3 * Cardinality(Positioned(ps, startPositions)))
     % Len(RandomCycle)) + 1

calculateGlobeToNebula(ps, startPositions, progress, region, time, random) ==
  LET relevantParticles == RelevantParticles(ps, region)
      nebulaConfig ==
        [NEBULA_CONFIG EXCEPT !.center = getRegionNebulaCenter(region)]
      nebulaPositions ==
        calculateNebulaFormation(relevantParticles, nebulaConfig, time)
      easedProgress == easeOutQuart(progress)
      spreadFactor == Mul(ArcOf(progress), 500)
  IN  [id \in Positioned(relevantParticles, startPositions) |->
         LET startPos == startPositions[id]
             endPos == nebulaPositions[id]
         IN  [c \in 1..3 |->
                lerp(startPos[c], endPos[c], easedProgress)
                  + Mul(random[id][c] - Milli \div 2, spreadFactor)]]

calculateExplosionToGalaxy(ps, progress, time) ==
  LET explosionCenter == <<0, 1500, 0>>
      finalPositions == calculateGalaxyFormation(ps, time)
      easedProgress == easeOutCubic(progress)
      spiralAngle == (progress * 4 * HalfTurn) \div ProgressSteps
      spiralRadius == (progress * 500) \div ProgressSteps
      remaining == ((ProgressSteps - progress) * Milli) \div ProgressSteps
  IN  [id \in ParticleIds(ps) |->
         LET finalPos == finalPositions[id]
             turn == spiralAngle + CharCodeAt(id, 5) * 10
         IN  << lerp(explosionCenter[1], finalPos[1], easedProgress)
                  + Mul(Mul(Cos(turn), spiralRadius), remaining),
                lerp(explosionCenter[2], finalPos[2], easedProgress)
                  + Mul(ArcOf(progress), 500),
                lerp(explosionCenter[3], finalPos[3], easedProgress)
                  + Mul(Mul(Sin(turn), spiralRadius), remaining) >>]

\* the arguments the calculators are called with
ParticleLists ==
  { <<ParticlePool.m1>>,
    <<ParticlePool.m2, ParticlePool.m1>>,
    <<ParticlePool.m1, ParticlePool.b1>>,
    <<ParticlePool.b1, ParticlePool.m2>> }

TimeArgs == {0, 7}

CalcProgressArgs == 0..ProgressSteps

CalcRegionArgs == {Null, "europe", "asia"}

MetricArgs == {"value", "weight"}

\* start positions: the galaxy or globe formation of the same particles, as
\* useParticlePositions passes them, or a map that knows the first only
StartPositionArgs(ps, time) ==
  { calculateGalaxyFormation(ps, time),
    calculateGlobeFormation(ps, time),
    [id \in {ps[1].id} |-> <<1000, 0 - 2000, 500>>] }

\* a call is made with the arguments chosen at the start
InitCalc ==
  /\ InitStore
  /\ visualizationMode = "particles"
  /\ particles = Untracked
  /\ formationState = UntrackedFormation
  /\ _assetClass = [n \in NodeIds |-> Absent]
  /\ lastOp = "off"
  /\ \E ps \in ParticleLists, time \in TimeArgs,
        progress \in CalcProgressArgs, selectedRegion \in CalcRegionArgs,
        yAxisMetric \in MetricArgs, rng \in 1..Len(RandomCycle) :
       \E startPositions \in StartPositionArgs(ps, time) :
         call = [fn |-> "none", particles |-> ps,
                 startPositions |-> startPositions, progress |-> progress,
                 selectedRegion |-> selectedRegion,
                 yAxisMetric |-> yAxisMetric, time |-> time,
                 easedProgress |-> 0, order |-> << >>,
                 positions |-> << >>, again |-> {}, rng |-> rng]

\* what a call leaves behind: the eased progress it interpolated with, the
\* order it placed the particles in, and the map it returned
\* the generator after a call of fn
RngAfter(fn) ==
  IF fn = "calculateGlobeToNebula"
    THEN AfterDraws(RelevantParticles(call.particles, call.selectedRegion),
                    call.startPositions, call.rng)
    ELSE call.rng

Returns(fn, easedProgress, order, positions) ==
  /\ call' = [call EXCEPT !.fn = fn, !.easedProgress = easedProgress,
                          !.order = order, !.positions = positions,
                          !.again = {}, !.rng = RngAfter(fn)]
  /\ UNCHANGED <<navVars, timerVars, mounted, visualizationMode,
                 particleVars, quiet, seq, lastOp>>

CalculateGalaxyFormation ==
  Returns("calculateGalaxyFormation", 0, << >>,
          calculateGalaxyFormation(call.particles, call.time))

CalculateGlobeFormation ==
  Returns("calculateGlobeFormation", 0, << >>,
          calculateGlobeFormation(call.particles, call.time))

CalculateNebulaFormation ==
  Returns("calculateNebulaFormation", 0,
          [i \in 1..Len(call.particles) |->
             SortedParticles(call.particles)[i].id],
          calculateNebulaFormation(
            call.particles,
            [NEBULA_CONFIG EXCEPT !.yAxisMetric = call.yAxisMetric],
            call.time))

CalculateExplosionToGalaxy ==
  Returns("calculateExplosionToGalaxy", easeOutCubic(call.progress), << >>,
          calculateExplosionToGalaxy(call.particles, call.progress,
                                     call.time))

CalculateGalaxyToGlobe ==
  Returns("calculateGalaxyToGlobe", easeInOutCubic(call.progress), << >>,
          calculateGalaxyToGlobe(call.particles, call.startPositions,
                                 call.progress, call.time))

CalculateGlobeToNebula ==
  Returns("calculateGlobeToNebula", easeOutQuart(call.progress), << >>,
          calculateGlobeToNebula(
            call.particles, call.startPositions, call.progress,
            call.selectedRegion, call.time,
            DrawsFor(RelevantParticles(call.particles, call.selectedRegion),
                     call.startPositions, call.rng)))

\* the map the function called last returns for the same arguments
ResultOf(fn) ==
  CASE fn = "calculateGalaxyFormation" ->
         calculateGalaxyFormation(call.particles, call.time)
    [] fn = "calculateGlobeFormation" ->
         calculateGlobeFormation(call.particles, call.time)
    [] fn = "calculateNebulaFormation" ->
         calculateNebulaFormation(
           call.particles,
           [NEBULA_CONFIG EXCEPT !.yAxisMetric = call.yAxisMetric],
           call.time)
    [] fn = "calculateExplosionToGalaxy" ->
         calculateExplosionToGalaxy(call.particles, call.progress, call.time)
    [] fn = "calculateGalaxyToGlobe" ->
         calculateGalaxyToGlobe(call.particles, call.startPositions,
                                call.progress, call.time)
    [] OTHER ->
         calculateGlobeToNebula(call.particles, call.startPositions,
                                call.progress, call.selectedRegion,
                                call.time,
                                DrawsFor(RelevantParticles(
                                           call.particles,
                                           call.selectedRegion),
                                         call.startPositions, call.rng))

\* the same function called once more with the same arguments
CallAgain ==
  /\ call.fn # "none"
  /\ call' = [call EXCEPT !.again = {ResultOf(call.fn)},
                          !.rng = RngAfter(call.fn)]
  /\ UNCHANGED <<navVars, timerVars, mounted, visualizationMode,
                 particleVars, quiet, seq, lastOp>>

NextCalc ==
  \/ CalculateGalaxyFormation
  \/ CalculateGlobeFormation
  \/ CalculateNebulaFormation
  \/ CalculateExplosionToGalaxy
  \/ CalculateGalaxyToGlobe
  \/ CalculateGlobeToNebula
  \/ CallAgain

CalcSpec == InitCalc /\ [][NextCalc]_vars

\* ParticleSystem.tsx: the switch on currentFormation, which
\* useParticlePositions holds twice; calculateNebulaFormation is called
\* with its default config and time
FormationPositions(formation, ps, time) ==
  CASE formation = "galaxy" -> calculateGalaxyFormation(ps, time)
    [] formation = "globe" -> calculateGlobeFormation(ps, time)
    [] formation = "nebula" -> calculateNebulaFormation(ps, NEBULA_CONFIG, 0)
    [] OTHER -> calculateGalaxyFormation(ps, time)

\* transitionProgress, kept in 1/ProgressScale, in the quarters the
\* calculators take
CalcProgress(progress) == (progress * ProgressSteps) \div ProgressScale

\* useParticlePositions with the fallback on the target formation
useParticlePositionsOfTarget(ps, fs, time, rng) ==
  IF ~fs.isTransitioning \/ fs.transitionProgress >= ProgressScale
    THEN FormationPositions(fs.currentFormation, ps, time)
  ELSE IF fs.currentFormation = "galaxy" /\ fs.targetFormation = "globe"
    THEN calculateGalaxyToGlobe(ps, calculateGalaxyFormation(ps, time),
                                CalcProgress(fs.transitionProgress), time)
  ELSE IF fs.currentFormation = "globe" /\ fs.targetFormation = "nebula"
    THEN LET globePositions == calculateGlobeFormation(ps, time)
         IN  calculateGlobeToNebula(
               ps, globePositions, CalcProgress(fs.transitionProgress),
               fs.selectedRegion, time,
               DrawsFor(RelevantParticles(ps, fs.selectedRegion),
                        globePositions, rng))
  ELSE FormationPositions(fs.targetFormation, ps, time)

useParticlePositions(ps, fs, time, rng) ==
  IF ~fs.isTransitioning \/ fs.transitionProgress >= ProgressScale
    THEN FormationPositions(fs.currentFormation, ps, time)
  ELSE IF fs.currentFormation = "galaxy" /\ fs.targetFormation = "globe"
    THEN calculateGalaxyToGlobe(ps, calculateGalaxyFormation(ps, time),
                                CalcProgress(fs.transitionProgress), time)
  ELSE IF fs.currentFormation = "globe" /\ fs.targetFormation = "nebula"
    THEN LET globePositions == calculateGlobeFormation(ps, time)
         IN  calculateGlobeToNebula(
               ps, globePositions, CalcProgress(fs.transitionProgress),
               fs.selectedRegion, time,
               DrawsFor(RelevantParticles(ps, fs.selectedRegion),
                        globePositions, rng))
  ELSE FormationPositions(fs.currentFormation, ps, time)

\* the generator after useParticlePositions ran: only the globe to nebula
\* interpolation draws
RngAfterPositions(ps, fs, time, rng) ==
  IF fs.isTransitioning /\ fs.transitionProgress < ProgressScale
       /\ fs.currentFormation = "globe" /\ fs.targetFormation = "nebula"
    THEN AfterDraws(RelevantParticles(ps, fs.selectedRegion),
                    calculateGlobeFormation(ps, time), rng)
    ELSE rng

\* ParticleSystem renders with the formationState fs and the animation
\* time: the memo of useParticlePositions is computed again
Renders(fs, time) ==
  /\ call # NoCall
  /\ call.fn = "useParticlePositions"
  /\ formationState' = fs
  /\ call' = [call EXCEPT
                !.time = time,
                !.drawn = call.rng,
                !.positions =
                  useParticlePositions(call.particles, fs, time, call.rng),
                !.rng = RngAfterPositions(call.particles, fs, time, call.rng)]
  /\ UNCHANGED <<navVars, timerVars, mounted, visualizationMode, particles,
                 _assetClass, quiet, seq, lastOp>>

InitPositions ==
  /\ InitStore
  /\ visualizationMode = "particles"
  /\ particles = Untracked
  /\ formationState = initialFormationState
  /\ _assetClass = [n \in NodeIds |-> Absent]
  /\ lastOp = "off"
  /\ \E ps \in ParticleLists, rng \in 1..Len(RandomCycle) :
       call = [fn |-> "useParticlePositions", particles |-> ps, time |-> 0,
               drawn |-> rng,
               positions |->
                 useParticlePositions(ps, initialFormationState, 0, rng),
               rng |-> rng]

\* startTransition of the particle store, seen by a rendered ParticleSystem
RenderStartTransition(targetFormation) ==
  Renders(StartTransitionOn(formationState, targetFormation), call.time)

\* selectRegion of the particle store
RenderSelectRegion(region) ==
  Renders([formationState EXCEPT !.selectedRegion = region], call.time)

\* a frame: useFrame advances the transition and the animation time
RenderFrame(delta, time) ==
  Renders(FrameAdvance(formationState, delta), time)

PositionFrameDeltas == {PortfolioToGalaxy \div 4, GlobeToNebula}

NextPositions ==
  \/ \E targetFormation \in FormationTypes :
       RenderStartTransition(targetFormation)
  \/ \E region \in CalcRegionArgs : RenderSelectRegion(region)
  \/ \E delta \in PositionFrameDeltas, time \in TimeArgs :
       RenderFrame(delta, time)

PositionSpec == InitPositions /\ [][NextPositions]_vars

\* worldSimplified.ts: the projection of the flat map.  Radians are kept
\* in thousandths; EPSILON (1e-10) lies below that resolution and is the
\* smallest number above 0.  A result that is NaN carries nan = TRUE and
\* numbers that mean nothing.
PI == 3142
HALF_PI == PI \div 2
EPSILON == 1

Abs(v) == IF v < 0 THEN 0 - v ELSE v

\* a / b on numbers in thousandths, for b # 0
Quot(a, b) ==
  LET n == IF b < 0 THEN 0 - a ELSE a
      d == Abs(b)
  IN  (n \div d) * Milli + ((n % d) * Milli) \div d

\* Math.sqrt on a number in thousandths that is not negative
RECURSIVE RootBetween(_, _, _)
RootBetween(n, lo, hi) ==
  IF lo >= hi THEN lo
  ELSE LET mid == (lo + hi + 1) \div 2
       IN  IF mid * mid <= n THEN RootBetween(n, mid, hi)
           ELSE RootBetween(n, lo, mid - 1)

Sqrt(v) == RootBetween(v * Milli, 0, 46340)

\* Math.asin on [0, 1], in hundredths of a radian: the inverse of Sin
ArcSin(u) ==
  CHOOSE a \in 0..(HalfTurn \div 2) :
    /\ SinHalf(a) <= u
    /\ a = HalfTurn \div 2 \/ SinHalf(a + 1) > u

\* what vanDerGrinten4 returns, and the return statement it left through
VdgReturn(x, y, branch) == [x |-> x, y |-> y, nan |-> FALSE, branch |-> branch]

\* lines 312-374: the general formula.  The first x and y (lines 335-339)
\* are overwritten on both sides of the discriminant and left out.
vanDerGrinten4Formulas(phi, lambda) ==
  LET absLambda == Abs(lambda)
      asinArg == Quot(Abs(2 * phi), PI)
  IN  IF asinArg > Milli
        \* Math.asin is NaN: so are D, the discriminant (neither test
        \* holds), the square root, x and y, and Math.min / Math.max
        THEN [x |-> 0, y |-> 0, nan |-> TRUE, branch |-> "quadratic"]
      ELSE
      LET theta == ArcSin(asinArg)
          sinTheta == Sin(theta)
          cosTheta == Cos(theta)
          sinThetaSq == Mul(sinTheta, sinTheta)
          cosThetaSq == Mul(cosTheta, cosTheta)
          B == Quot(absLambda, PI)
          BSq == Mul(B, B)
          D == Milli + Mul(BSq, Milli - sinThetaSq)
      IN  IF Abs(D) < EPSILON
            THEN VdgReturn(IF lambda > 0 THEN PI ELSE 0 - PI,
                           IF phi > 0 THEN HALF_PI ELSE 0 - HALF_PI,
                           "denominator")
          ELSE
          LET A == Quot(absLambda \div 2, PI)
              G == Quot(cosThetaSq, sinTheta + cosThetaSq - Milli + EPSILON)
              P == Mul(G, Quot(2 * Milli, sinTheta) - Milli)
              Q == Mul(A, A) + G
              P2 == Mul(P, P)
              Q2 == Mul(Q, Q)
              A2 == Mul(A, A)
              discriminant == P2 + A2 - Q2
              sqrtDisc == Sqrt(discriminant)
              x == IF discriminant < 0 THEN absLambda
                   ELSE Quot(Mul(PI, Mul(A, G - P2) + Mul(sqrtDisc, P)),
                             P2 + A2 + EPSILON)
              y == IF discriminant < 0 THEN Mul(sinTheta, HALF_PI)
                   ELSE Quot(Mul(PI, Mul(P, G - A2) - Mul(A, sqrtDisc)),
                             P2 + A2 + EPSILON)
              signedX == IF lambda < 0 THEN 0 - x ELSE x
              signedY == IF phi < 0 THEN 0 - y ELSE y
          IN  VdgReturn(Max(0 - PI, Min(PI, signedX)),
                        Max(0 - HALF_PI, Min(HALF_PI, signedY)),
                        IF discriminant < 0 THEN "fallback" ELSE "quadratic")

\* vanDerGrinten4 without the special case of the poles
vanDerGrinten4WithoutPoles(lat, long) ==
  LET phi == (lat * PI) \div 180
      lambda == (long * PI) \div 180
  IN  IF Abs(phi) < EPSILON THEN VdgReturn(lambda, 0, "equator")
      ELSE IF Abs(lambda) < EPSILON THEN VdgReturn(0, phi, "meridian")
      ELSE vanDerGrinten4Formulas(phi, lambda)

vanDerGrinten4(lat, long) ==
  LET phi == (lat * PI) \div 180
      lambda == (long * PI) \div 180
  IN  IF Abs(Abs(phi) - HALF_PI) < EPSILON
        THEN VdgReturn(0, IF phi > 0 THEN HALF_PI ELSE 0 - HALF_PI, "pole")
      ELSE IF Abs(phi) < EPSILON THEN VdgReturn(lambda, 0, "equator")
      ELSE IF Abs(lambda) < EPSILON THEN VdgReturn(0, phi, "meridian")
      ELSE vanDerGrinten4Formulas(phi, lambda)

projectionTo3D(projX, projY, yLevel, scale) ==
  << Mul(projX, scale), yLevel, 0 - Mul(projY, scale) >>

\* smoothStep without the clamp of t
smoothStepUnclamped(t) == ProgressSteps * t * t * (3 * ProgressSteps - 2 * t)

\* t in quarters, the result in 1/EaseUnit
smoothStep(t) ==
  LET c == Max(0, Min(ProgressSteps, t))
  IN  ProgressSteps * c * c * (3 * ProgressSteps - 2 * c)

\* lerp of worldSimplified.ts is that of the calculators.  A coordinate
\* interpolated towards NaN is NaN for every t: nan holds those coordinates
interpolateSphereToProjection(latLong, progress, sphereRadius, config) ==
  LET spherePos == latLongToSphere(latLong.lat, latLong.long, sphereRadius)
      proj == vanDerGrinten4(latLong.lat, latLong.long)
      flat == projectionTo3D(proj.x, proj.y, config.yLevel, config.scale)
      flatPos == [c \in 1..3 |-> flat[c] + config.center[c]]
      t == smoothStep(progress)
  IN  [pos |-> [c \in 1..3 |-> lerp(spherePos[c], flatPos[c], t)],
       nan |-> IF proj.nan THEN {1, 3} ELSE {}]

\* the arguments: latitudes and longitudes inside, at the ends of and
\* outside their ranges, progress below, inside and above [0, 1]
LatArgs == {0 - 90, 0 - 45, 0, 30, 89, 90, 120}
LongArgs == {0 - 180, 0 - 90, 0, 60, 180, 270}
ProjectionProgressArgs == {0 - 1, 0, 2, ProgressSteps, ProgressSteps + 1}
RadiusArgs == {2500, 1000}
ProjectionConfigs ==
  { [yLevel |-> 1500, scale |-> Milli, center |-> <<0, 0, 0>>],
    [yLevel |-> 0, scale |-> 2 * Milli, center |-> <<1000, 0 - 500, 250>>] }

InitProjection ==
  /\ InitStore
  /\ visualizationMode = "particles"
  /\ particles = Untracked
  /\ formationState = UntrackedFormation
  /\ _assetClass = [n \in NodeIds |-> Absent]
  /\ lastOp = "off"
  /\ \E lat \in LatArgs, long \in LongArgs,
        progress \in ProjectionProgressArgs, sphereRadius \in RadiusArgs,
        config \in ProjectionConfigs :
       call = [fn |-> "none", latLong |-> [lat |-> lat, long |-> long],
               progress |-> progress, sphereRadius |-> sphereRadius,
               projectionConfig |-> config, result |-> << >>]

ReturnsProjection(fn, result) ==
  /\ call' = [call EXCEPT !.fn = fn, !.result = result]
  /\ UNCHANGED <<navVars, timerVars, mounted, visualizationMode,
                 particleVars, quiet, seq, lastOp>>

VanDerGrinten4 ==
  ReturnsProjection("vanDerGrinten4",
                    vanDerGrinten4(call.latLong.lat, call.latLong.long))

InterpolateSphereToProjection ==
  ReturnsProjection("interpolateSphereToProjection",
                    interpolateSphereToProjection(
                      call.latLong, call.progress, call.sphereRadius,
                      call.projectionConfig))

NextProjection ==
  \/ VanDerGrinten4
  \/ InterpolateSphereToProjection

ProjectionSpec == InitProjection /\ [][NextProjection]_vars

(***************************************************************************)
(* Properties                                                              *)
(***************************************************************************)
\* node.children ?? []: the child list of a node of the breadcrumb
ChildrenOf(n) == IF n \in HasChildrenField THEN children[n] ELSE << >>

\* the nodes the breadcrumb trail stands for
BreadcrumbNodes ==
  IF Len(selectionPath) = 0 THEN rootNodes
  ELSE ChildrenOf(selectionPath[Len(selectionPath)].node)

\* C1: whenever animationPhase is idle, currentNodes is the child list of
\* the node of the last selectionPath entry, or rootNodes when the path is
\* empty, whatever commands and timer firings came before.
CurrentNodesFollowBreadcrumb ==
  animationPhase = "idle" => currentNodes = BreadcrumbNodes

\* C2: whenever animationPhase is idle, selectionPath has exactly
\* currentLevel entries, also after a collapse timer that fired late.
PathLengthIsLevel ==
  animationPhase = "idle" => Len(selectionPath) = currentLevel

\* a descend has completed its three stages and settled two levels down
SettledAtLevelTwo ==
  /\ animationPhase = "idle"
  /\ currentLevel = 2
  /\ Len(selectionPath) = 2
  /\ seq.kind = "descend"
  /\ seq.stage = "done"

\* C3: whenever animationPhase is not idle, animatingNodeId names a node
\* (it is not null), whichever command or timer entered the phase.
AnimatingNodeNamed ==
  animationPhase # "idle" => animatingNodeId # Null

\* a descend is running: a phase of the descend sequence, on a node that
\* completeAnimation would descend into
DescendRunning ==
  /\ animationPhase \in {"selecting", "moving", "splitting"}
  /\ Find(currentNodes, animatingNodeId) # Null

TransitionsInFlight ==
  Len(collapseTimers) + (IF DescendRunning THEN 1 ELSE 0)

\* C4: at most one structural transition is in flight: never a pending
\* collapse timer together with a running descend, nor two pending collapse
\* timers.
OneTransitionInFlight == TransitionsInFlight <= 1

\* a timer scheduled before the last reset, initialize or unmount fires
StaleTimerFires ==
  \/ \E i \in DOMAIN collapseTimers :
       collapseTimers[i].stale /\ FireCollapse(i)
  \/ \E i \in DOMAIN explodeTimers :
       explodeTimers[i].stale /\ FireExplode(i)

\* C5: a timer scheduled before a reset, an initialize or an unmount does
\* not change currentLevel, selectionPath, currentNodes or animationPhase
\* when it fires afterwards.
StaleTimersInert == [][StaleTimerFires => UNCHANGED structVars]_vars

PhaseEdges ==
  { <<"idle", "selecting">>, <<"selecting", "moving">>,
    <<"moving", "splitting">>, <<"splitting", "idle">>,
    <<"idle", "collapsing">>, <<"collapsing", "idle">> }

\* the steps the phase graph does not constrain: reset and initialize (also
\* the one Stage makes when it mounts), and a completeAnimation that is not
\* the one the view's timer makes
OutsidePhaseGraph ==
  \/ Reset
  \/ \E roots \in Hierarchies : Initialize(roots)
  \/ \E data \in Hierarchies : Mount(data)
  \/ CompleteAnimation

\* C6: animationPhase changes only along idle -> selecting -> moving ->
\* splitting -> idle and idle -> collapsing -> idle, reset and initialize
\* apart, and currentLevel is raised only by a step out of splitting.
PhaseGraphRespected ==
  [][OutsidePhaseGraph
     \/ /\ animationPhase' # animationPhase
           => <<animationPhase, animationPhase'>> \in PhaseEdges
        /\ currentLevel' > currentLevel => animationPhase = "splitting"]_vars

\* C7: after selectNode(n) at level L with path P was accepted and its
\* three timed stages ran without any other command, the store is idle at
\* level L + 1 on the children of n, the path is P with (n, L) appended,
\* animatingNodeId is null and carouselOffset and focusedNodeIndex are 0.
DescendResult ==
  (seq.kind = "descend" /\ seq.stage = "done")
    => /\ animationPhase = "idle"
       /\ currentLevel = seq.level + 1
       /\ currentNodes = children[seq.node]
       /\ selectionPath = Append(seq.path,
                                 [node |-> seq.node, level |-> seq.level])
       /\ animatingNodeId = Null
       /\ carouselOffset = 0
       /\ focusedNodeIndex = 0

\* a descend from level 1, below a non-empty path, has settled
DescendedFromLevelOne ==
  /\ seq.kind = "descend"
  /\ seq.stage = "done"
  /\ seq.level = 1
  /\ Len(seq.path) = 1
  /\ currentLevel = 2

\* C8: with Stage mounted, timers firing when due and no further command,
\* a phase other than idle is followed by idle.
EventuallyIdle ==
  (quiet /\ mounted /\ animationPhase # "idle") ~> (animationPhase = "idle")

\* the user has stopped while the last stage of a descend is pending
QuietWhileSplitting ==
  /\ quiet
  /\ mounted
  /\ animationPhase = "splitting"

\* C9: selectNode(nodeId) changes nothing of the store and schedules
\* nothing when animationPhase is not idle or nodeId is the id of no node
\* of currentNodes.
SelectNodeRefused ==
  [][\A nodeId \in IdArgs :
       (/\ SelectNode(nodeId)
        /\ animationPhase # "idle" \/ nodeId \notin IdsOf(currentNodes))
         => UNCHANGED <<navVars, timerVars>>]_vars

\* selectNode was refused during an animation although a node that could
\* be drilled into was on display
RefusedWhileAnimating ==
  /\ lastOp = "selectNode.rejected"
  /\ animationPhase # "idle"
  /\ \E n \in IdsOf(currentNodes) : ~IsLeaf(n)

\* C10: after goBack(t) at level L was accepted (t = L - 1 by default) the
\* store is in phase collapsing, and once the collapse delay has elapsed
\* without any other command it is idle at level t, the path cut to its
\* first t entries, currentNodes recomputed from the path, animatingNodeId
\* null and carouselOffset and focusedNodeIndex 0.
CollapseResult ==
  /\ (seq.kind = "collapse" /\ seq.stage = "collapsing")
       => animationPhase = "collapsing"
  /\ (seq.kind = "collapse" /\ seq.stage = "done")
       => /\ animationPhase = "idle"
          /\ currentLevel = seq.target
          /\ selectionPath = SubSeq(seq.path, 1, seq.target)
          /\ currentNodes = BreadcrumbNodes
          /\ animatingNodeId = Null
          /\ carouselOffset = 0
          /\ focusedNodeIndex = 0

\* a collapse from level 2 to level 1 has settled
CollapsedToLevelOne ==
  /\ seq.kind = "collapse"
  /\ seq.stage = "done"
  /\ seq.level = 2
  /\ seq.target = 1
  /\ currentLevel = 1

\* C11: goBack(toLevel) changes nothing of the store and schedules nothing
\* when animationPhase is not idle, when currentLevel is 0, or when toLevel
\* is negative or not below currentLevel.
GoBackRefused ==
  [][\A toLevel \in LevelArgs :
       (/\ GoBack(toLevel)
        /\ \/ animationPhase # "idle"
           \/ currentLevel = 0
           \/ toLevel < 0
           \/ toLevel >= currentLevel)
         => UNCHANGED <<navVars, timerVars>>]_vars

\* goBack was refused for its target alone: the store was idle below the
\* root level
RefusedForTarget ==
  /\ lastOp = "goBack.rejected"
  /\ animationPhase = "idle"
  /\ currentLevel > 0

\* the ids of the instrument nodes of a hierarchy
InstrumentIds(roots) ==
  LET instruments == ExtractInstruments(roots)
  IN  {instruments[i].nodeId : i \in DOMAIN instruments}

\* C13: once initialize has installed a hierarchy, the particle list that
\* ParticleVisualization works with is made from it: every particle's
\* nodeId is an instrument node of the current hierarchy, also when
\* particles of an earlier hierarchy exist.
ParticlesFromHierarchy ==
  "ParticleVisualization" \in Shown
    => \A i \in DOMAIN particles :
         particles[i].nodeId \in InstrumentIds(rootNodes)

\* C12: reset() is accepted in every animation phase and at once yields
\* currentLevel 0, an empty selectionPath, currentNodes = rootNodes, phase
\* idle, animatingNodeId null and no exploded instrument, and leaves
\* rootNodes and viewMode unchanged.
ResetResult ==
  [][Reset => /\ currentLevel' = 0
              /\ selectionPath' = << >>
              /\ currentNodes' = rootNodes
              /\ animationPhase' = "idle"
              /\ animatingNodeId' = Null
              /\ explodedInstrumentId' = Null
              /\ rootNodes' = rootNodes
              /\ viewMode' = viewMode]_vars

\* reset was applied in contribution mode while a collapse was under way
\* (its timer is still pending)
ResetDuringCollapse ==
  /\ lastOp = "reset"
  /\ Len(collapseTimers) = 1
  /\ viewMode = "contribution"
  /\ animationPhase = "idle"

\* C14: explodeInstrument(nodeId) is refused without any change when the
\* phase is not idle, the node is not in currentNodes or it has no
\* children; when accepted it sets explodedInstrumentId = nodeId, the
\* phase is selecting until it is idle again (never moving or splitting),
\* and currentLevel, selectionPath and currentNodes stay as they were.
ExplodeSequence ==
  [][/\ \A instrumentId \in IdArgs :
          (/\ ExplodeInstrument(instrumentId)
           /\ \/ animationPhase # "idle"
              \/ instrumentId \notin IdsOf(currentNodes)
              \/ ChildrenOf(instrumentId) = << >>)
            => UNCHANGED <<navVars, timerVars>>
     /\ seq'.kind = "explode"
          => /\ explodedInstrumentId' = seq'.node
             /\ animationPhase' = (IF seq'.stage = "done" THEN "idle"
                                   ELSE "selecting")
             /\ currentLevel' = seq'.level
             /\ selectionPath' = seq'.path
             /\ currentNodes' = currentNodes]_vars

\* C15: collapseInstrument() in any state sets explodedInstrumentId and
\* selectedContributionId to null and contributionSpacing to its default,
\* and leaves currentLevel, selectionPath, currentNodes, animationPhase and
\* animatingNodeId unchanged.
CollapseInstrumentResult ==
  [][CollapseInstrument
       => /\ explodedInstrumentId' = Null
          /\ selectedContributionId' = Null
          /\ contributionSpacing' = DefaultSpacing
          /\ UNCHANGED <<currentLevel, selectionPath, currentNodes,
                         animationPhase, animatingNodeId>>]_vars

\* collapseInstrument was applied below the root level while the explode
\* sequence was still running
CollapsedWhileExploding ==
  /\ lastOp = "collapseInstrument"
  /\ currentLevel = 1
  /\ animationPhase # "idle"
  /\ Len(explodeTimers) = 1

\* C16: selectNode(nodeId) in phase idle for a node of currentNodes whose
\* child list is absent or empty changes only hoveredNodeId, which becomes
\* nodeId.
LeafSelectOnlyHovers ==
  [][\A nodeId \in NodeIds :
       (/\ SelectNode(nodeId)
        /\ animationPhase = "idle"
        /\ nodeId \in IdsOf(currentNodes)
        /\ ChildrenOf(nodeId) = << >>)
         => /\ hoveredNodeId' = nodeId
            /\ UNCHANGED <<rootNodes, currentLevel, selectionPath,
                           currentNodes, animationPhase, animatingNodeId,
                           viewMode, explodedInstrumentId,
                           contributionSpacing, selectedContributionId,
                           focusedNodeIndex, carouselOffset>>]_vars

\* the node with an empty child list was picked while the carousel was
\* scrolled
EmptyListLeafPicked ==
  /\ lastOp = "selectNode.leaf"
  /\ hoveredNodeId = "m2"
  /\ carouselOffset > 0

AfterCarouselCommand ==
  lastOp \in {"setCarouselOffset", "scrollCarousel",
              "scrollCarousel.rejected"}

\* C18 as stated: after setCarouselOffset(o) or scrollCarousel(d), for
\* every argument and sibling count (an empty currentNodes included),
\* carouselOffset is not outside [0, currentNodes.length - 1].
OffsetWithinSiblings ==
  AfterCarouselCommand
    => /\ carouselOffset >= 0
       /\ carouselOffset <= (Len(currentNodes) - 1) * OffsetScale

\* C18 as amended: after setCarouselOffset(o), and after scrollCarousel(d)
\* on a non-empty currentNodes, carouselOffset lies in
\* [0, max(0, currentNodes.length - 1)]: it is 0 on an empty list.
OffsetWithinSiblingsOrZero ==
  lastOp \in {"setCarouselOffset", "scrollCarousel"}
    => /\ carouselOffset >= 0
       /\ carouselOffset <= Max(0, (Len(currentNodes) - 1) * OffsetScale)

\* an offset beyond the last sibling was clamped to it
OffsetClampedToLast ==
  /\ lastOp = "setCarouselOffset"
  /\ Len(currentNodes) = 2
  /\ carouselOffset = OffsetScale

\* C19: after scrollCarousel(delta) and after setCarouselOffset(offset),
\* focusedNodeIndex is round(carouselOffset) and hoveredNodeId is the id of
\* currentNodes[focusedNodeIndex].
FocusFollowsOffset ==
  (lastOp \in {"setCarouselOffset", "scrollCarousel"}
   /\ Len(currentNodes) > 0)
    => /\ focusedNodeIndex = Round(carouselOffset)
       /\ focusedNodeIndex + 1 \in DOMAIN currentNodes
       /\ hoveredNodeId = currentNodes[focusedNodeIndex + 1]

StructureAndPhase ==
  <<currentLevel, selectionPath, currentNodes, animationPhase,
    animatingNodeId>>

\* C20: setViewMode, setContributionSpacing, scrollCarousel and
\* setCarouselOffset take effect in every animation phase and never change
\* currentLevel, selectionPath, currentNodes, animationPhase or
\* animatingNodeId.
AuxCommandsApart ==
  [][/\ \A mode \in ViewModes :
          (lastOp' = "setViewMode" /\ SetViewMode(mode))
            => viewMode' = mode /\ UNCHANGED StructureAndPhase
     /\ \A v \in AuxSpacingArgs :
          (lastOp' = "setContributionSpacing" /\ SetContributionSpacing(v))
            => /\ contributionSpacing' = Max(MinSpacing, Min(MaxSpacing, v))
               /\ UNCHANGED StructureAndPhase
     /\ \A d \in DeltaArgs :
          (/\ lastOp' \in {"scrollCarousel", "scrollCarousel.rejected"}
           /\ ScrollCarousel(d))
            => /\ Len(currentNodes) > 0
                    => carouselOffset'
                         = Max(0, Min((Len(currentNodes) - 1) * OffsetScale,
                                      carouselOffset + d))
               /\ UNCHANGED StructureAndPhase
     /\ \A o \in OffsetArgs :
          (lastOp' = "setCarouselOffset" /\ SetCarouselOffset(o))
            => /\ carouselOffset'
                    = Max(0, Min((Len(currentNodes) - 1) * OffsetScale, o))
               /\ UNCHANGED StructureAndPhase]_vars

\* the carousel was scrolled while a descend was in its last stage
ScrolledWhileSplitting ==
  /\ lastOp = "scrollCarousel"
  /\ animationPhase = "splitting"
  /\ carouselOffset > 0
  /\ viewMode = "contribution"

\* C21: in every reachable state of the particle store, whatever commands
\* were called, isTransitioning = false implies
\* currentFormation = targetFormation.
SettledFormationIsTarget ==
  ~formationState.isTransitioning
    => formationState.currentFormation = formationState.targetFormation

\* a transition to nebula has been completed
TransitionCompleted ==
  /\ lastOp = "completeTransition"
  /\ formationState.currentFormation = "nebula"
  /\ formationState.transitionProgress = ProgressScale
  /\ ~formationState.isTransitioning

ProgressRange == 0..ProgressScale

\* C22: transitionProgress and unfoldProgress are within [0, 1] in every
\* reachable state: updateTransitionProgress(p) and updateUnfoldProgress(p)
\* store p clamped to [0, 1] for every p, and a frame never stores a value
\* above 1.
ProgressWithinUnit ==
  [][/\ \A p \in ProgressArgs :
          (lastOp' = "updateTransitionProgress"
           /\ UpdateTransitionProgress(p))
            => formationState'.transitionProgress
                 = (IF p < 0 THEN 0
                    ELSE IF p > ProgressScale THEN ProgressScale ELSE p)
     /\ \A p \in ProgressArgs :
          (lastOp' = "updateUnfoldProgress" /\ UpdateUnfoldProgress(p))
            => formationState'.unfoldProgress
                 = (IF p < 0 THEN 0
                    ELSE IF p > ProgressScale THEN ProgressScale ELSE p)
     /\ formationState.transitionProgress \in ProgressRange
     /\ formationState.unfoldProgress \in ProgressRange
     /\ formationState'.transitionProgress \in ProgressRange
     /\ formationState'.unfoldProgress \in ProgressRange]_vars

\* a progress above 1 was stored as 1 while a transition was under way
\* that frames had advanced
ProgressClampedAtOne ==
  /\ lastOp = "updateTransitionProgress"
  /\ formationState.isTransitioning
  /\ formationState.transitionProgress = ProgressScale
  /\ formationState.unfoldProgress = ProgressScale

ParticleViewShown == "ParticleVisualization" \in Shown

\* C23: when the level settles at L in {1, 2, 3} with the particle view
\* mounted and frames coming, the formation store reaches
\* currentFormation = f(L) with isTransitioning = false and stays there,
\* whatever level changes came before, also during a transition.
FormationFollowsLevel ==
  \A level \in 1..3 :
    <>[](currentLevel = level /\ ParticleViewShown)
      => <>[](/\ formationState.currentFormation = levelToFormation(level)
              /\ ~formationState.isTransitioning)

\* level 3 was reached while the transition that started at level 2 was
\* still in progress, and frames advance the transition to nebula
RetargetedMidTransition ==
  /\ currentLevel = 3
  /\ ParticleViewShown
  /\ formationState.currentFormation = "galaxy"
  /\ formationState.targetFormation = "nebula"
  /\ formationState.isTransitioning
  /\ formationState.transitionProgress > 0

\* C24: when navigation is idle at level L with the particle view mounted
\* and its effects run, selectedGalaxy is the asset class of the second
\* breadcrumb entry if L >= 2 and null otherwise, and selectedRegion the
\* region of the third entry if L >= 3 and null otherwise.
FiltersFollowBreadcrumb ==
  (animationPhase = "idle" /\ ParticleViewShown)
    => /\ formationState.selectedGalaxy
            = (IF currentLevel >= 2 /\ Len(selectionPath) >= 2
                 THEN getAssetClassFromNode(selectionPath[2].node)
                 ELSE Null)
       /\ formationState.selectedRegion
            = (IF currentLevel >= 3 /\ Len(selectionPath) >= 3
                 THEN getRegionFromNode(selectionPath[3].node)
                 ELSE Null)

\* C25: no operation of the navigation store or the particle store adds,
\* removes or changes a field of a node of the hierarchy: no node ever
\* carries a field _assetClass.
HierarchyUntouched ==
  \A n \in NodeIds : _assetClass[n] = Absent

\* C26: a calculator called twice with the same particles, start
\* positions, progress, region, metric and time returns the same map.
SameCallSameMap ==
  \A positions \in call.again : positions = call.positions

\* C27: the positions are compared in thousandths.  calculateGalaxyToGlobe
\* positions the particles that have a start position; at progress 0 each
\* is at its start position, at progress 1 each is at its position in the
\* globe formation of the same particles and time.
GalaxyToGlobeEndpoints ==
  call.fn = "calculateGalaxyToGlobe"
    => /\ DOMAIN call.positions
            = ParticleIds(call.particles) \cap DOMAIN call.startPositions
       /\ call.progress = 0
            => \A id \in DOMAIN call.positions :
                 call.positions[id] = call.startPositions[id]
       /\ call.progress = ProgressSteps
            => \A id \in DOMAIN call.positions :
                 call.positions[id]
                   = calculateGlobeFormation(call.particles, call.time)[id]

ArrivedOnGlobe ==
  /\ call.fn = "calculateGalaxyToGlobe"
  /\ call.progress = ProgressSteps
  /\ call.time > 0
  /\ Len(call.particles) = 2
  /\ call.startPositions
       = calculateGalaxyFormation(call.particles, call.time)
  /\ DOMAIN call.positions = ParticleIds(call.particles)
  /\ \A id \in DOMAIN call.positions :
       call.positions[id] # call.startPositions[id]

\* C28: the keys of the map calculateGlobeToNebula returns are the ids of
\* the particles that have a start position and, when selectedRegion is
\* not null, whose region is selectedRegion.
NebulaKeysAreRegion ==
  call.fn = "calculateGlobeToNebula"
    => DOMAIN call.positions
         = { call.particles[i].id : i \in
               { j \in 1..Len(call.particles) :
                   /\ call.particles[j].id \in DOMAIN call.startPositions
                   /\ \/ call.selectedRegion = Null
                      \/ call.particles[j].region = call.selectedRegion } }

OtherRegionLeftOut ==
  /\ call.fn = "calculateGlobeToNebula"
  /\ call.selectedRegion = "europe"
  /\ Len(call.particles) = 2
  /\ ParticleIds(call.particles) \subseteq DOMAIN call.startPositions
  /\ DOMAIN call.positions = {"particle-m1"}

\* C29: every transition interpolates with 1 - (1 - t)^3 or 1 - (1 - t)^4
\* of its progress t.
TransitionsEaseOut ==
  call.fn \in {"calculateGalaxyToGlobe", "calculateGlobeToNebula",
               "calculateExplosionToGalaxy"}
    => call.easedProgress
         \in {easeOutCubic(call.progress), easeOutQuart(call.progress)}

\* C30: calculateNebulaFormation places the particles in descending order
\* of the metric of its configuration: of weight when yAxisMetric is
\* 'weight', of value when it is 'value'.
NebulaOrderByMetric ==
  call.fn = "calculateNebulaFormation"
    => \A i \in 1..Len(call.order) : \A j \in (i + 1)..Len(call.order) :
         LET p == call.particles[LastIndex(call.particles, call.order[i])]
             q == call.particles[LastIndex(call.particles, call.order[j])]
         IN  IF call.yAxisMetric = "value"
               THEN p.value >= q.value
               ELSE p.weight >= q.weight

\* C34: whenever animationPhase is idle, explodedInstrumentId is null or
\* the id of a node of currentNodes, whatever commands and timer firings
\* came before.
ExplodedIsVisible ==
  animationPhase = "idle"
    => \/ explodedInstrumentId = Null
       \/ Find(currentNodes, explodedInstrumentId) # Null

\* C35: whenever animationPhase is idle, animatingNodeId is null, for any
\* interleaving of the commands and their timers.
IdleHasNoAnimatingNode ==
  animationPhase = "idle" => animatingNodeId = Null

\* C36: the breadcrumb is a chain from a root node downwards: the entry at
\* position i (counted from 0) has level i, the first entry's node is one
\* of rootNodes, and the node of each later entry is a child of the node
\* of the entry before it.
BreadcrumbIsChain ==
  \A i \in 1..Len(selectionPath) :
    /\ selectionPath[i].level = i - 1
    /\ IF i = 1
         THEN Find(rootNodes, selectionPath[1].node) # Null
         ELSE Find(ChildrenOf(selectionPath[i - 1].node),
                   selectionPath[i].node) # Null

\* the phase-advance timers pending for the current phase
Drivers ==
  { v \in Views : viewTimers[v] # NoTimer
                  /\ viewTimers[v].phase = animationPhase }

\* C37: while the scene is mounted, exactly one of SelectionView and
\* ParticleVisualization is rendered, and in each phase of a descend
\* exactly one phase-advance timer is pending, that of the rendered view.
OneViewDrives ==
  mounted
    => /\ Cardinality(Shown) = 1
       /\ animationPhase \in {"selecting", "moving", "splitting"}
            => /\ Cardinality(Drivers) = 1
               /\ Drivers = Shown

\* an exploded instrument is collapsed while the phase it started is still
\* running: ParticleVisualization replaces SelectionView in mid-phase
ViewSwitchedInPhase ==
  /\ lastOp = "collapseInstrument"
  /\ mounted
  /\ animationPhase \in {"selecting", "moving", "splitting"}
  /\ Shown = {"ParticleVisualization"}
  /\ Drivers = Shown

\* a step that runs completeAnimation: the command, or the timer of the
\* splitting phase
CompletesAnimation == lastOp' \in {"completeAnimation", "timer.splitting"}

\* C38: completeAnimation in a phase other than splitting leaves
\* currentLevel, selectionPath and currentNodes as they are, sets the phase
\* to idle and clears animatingNodeId; and currentLevel increases only in
\* a step of completeAnimation taken in phase splitting with animatingNodeId
\* naming a node of currentNodes.
LevelRisesBySplittingOnly ==
  [][/\ (lastOp' = "completeAnimation" /\ animationPhase # "splitting")
          => /\ UNCHANGED <<currentLevel, selectionPath, currentNodes>>
             /\ animationPhase' = "idle"
             /\ animatingNodeId' = Null
     /\ currentLevel' > currentLevel
          => /\ CompletesAnimation
             /\ animationPhase = "splitting"
             /\ Find(currentNodes, animatingNodeId) # Null]_vars

InterpolatedPair(fs) ==
  \/ fs.currentFormation = "galaxy" /\ fs.targetFormation = "globe"
  \/ fs.currentFormation = "globe" /\ fs.targetFormation = "nebula"

InTransit(fs) ==
  fs.isTransitioning /\ fs.transitionProgress < ProgressScale

\* C40: while a transition is under way with progress below 1 the position
\* map is an interpolation for galaxy to globe and globe to nebula only;
\* for every other pair it is the map of the current formation until the
\* transition completes; outside a transition it is the map of the current
\* formation and has a position for every particle of the list.
PositionsFollowSource ==
  call.fn = "useParticlePositions" =>
    LET fs == formationState
        ps == call.particles
        globePositions == calculateGlobeFormation(ps, call.time)
    IN  /\ (InTransit(fs) /\ ~InterpolatedPair(fs))
             => call.positions
                  = FormationPositions(fs.currentFormation, ps, call.time)
        /\ (InTransit(fs) /\ fs.currentFormation = "galaxy"
              /\ fs.targetFormation = "globe")
             => call.positions
                  = calculateGalaxyToGlobe(
                      ps, calculateGalaxyFormation(ps, call.time),
                      CalcProgress(fs.transitionProgress), call.time)
        /\ (InTransit(fs) /\ fs.currentFormation = "globe"
              /\ fs.targetFormation = "nebula")
             => call.positions
                  = calculateGlobeToNebula(
                      ps, globePositions,
                      CalcProgress(fs.transitionProgress),
                      fs.selectedRegion, call.time,
                      DrawsFor(RelevantParticles(ps, fs.selectedRegion),
                               globePositions, call.drawn))
        /\ ~fs.isTransitioning
             => /\ call.positions
                     = FormationPositions(fs.currentFormation, ps, call.time)
                /\ DOMAIN call.positions = ParticleIds(ps)

\* half way from globe back to galaxy the particles still stand on the
\* globe, away from where the galaxy has them
ReverseShowsSource ==
  /\ call.fn = "useParticlePositions"
  /\ formationState.isTransitioning
  /\ formationState.currentFormation = "globe"
  /\ formationState.targetFormation = "galaxy"
  /\ formationState.transitionProgress >= ProgressScale \div 2
  /\ formationState.transitionProgress < ProgressScale
  /\ call.positions = calculateGlobeFormation(call.particles, call.time)
  /\ call.positions # calculateGalaxyFormation(call.particles, call.time)

\* the flat-plane point of a coordinate: the projected pair scaled, placed
\* at yLevel and moved by the center
FlatPoint(latLong, config) ==
  LET proj == vanDerGrinten4(latLong.lat, latLong.long)
  IN  << Mul(proj.x, config.scale) + config.center[1],
         config.yLevel + config.center[2],
         config.center[3] - Mul(proj.y, config.scale) >>

\* the result of interpolateSphereToProjection is the sphere point at
\* progress <= 0 and the flat point at progress >= 1
AtEndpoints ==
  /\ call.progress <= 0
       => /\ call.result.nan = {}
          /\ call.result.pos = latLongToSphere(call.latLong.lat,
                                               call.latLong.long,
                                               call.sphereRadius)
  /\ call.progress >= ProgressSteps
       => /\ call.result.nan = {}
          /\ call.result.pos = FlatPoint(call.latLong, call.projectionConfig)

\* C31 as stated: for every lat/long pair, radius and plane configuration
\* interpolateSphereToProjection gives the sphere point at progress <= 0
\* and the flat-plane point at progress >= 1.
InterpolationEndpoints ==
  call.fn = "interpolateSphereToProjection" => AtEndpoints

\* C31 amended: the same for every pair whose latitude lies in [-90, 90].
InterpolationEndpointsOfLatitudes ==
  (/\ call.fn = "interpolateSphereToProjection"
   /\ Abs(call.latLong.lat) <= 90)
    => AtEndpoints

\* past the end of the animation a point of the general formula lies on
\* the plane, away from the sphere
FlatPastTheEnd ==
  /\ call.fn = "interpolateSphereToProjection"
  /\ call.latLong = [lat |-> 30, long |-> 60]
  /\ call.progress > ProgressSteps
  /\ call.result.nan = {}
  /\ call.result.pos = FlatPoint(call.latLong, call.projectionConfig)
  /\ call.result.pos # latLongToSphere(30, 60, call.sphereRadius)

InDeclaredRange(result) ==
  /\ ~result.nan
  /\ 0 - PI <= result.x /\ result.x <= PI
  /\ 0 - HALF_PI <= result.y /\ result.y <= HALF_PI

\* C32: for latitude -90, 0, 90 and longitude -180, 0, 180 vanDerGrinten4
\* returns from a special case, before the general formula, a finite pair
\* with x in [-PI, PI] and y in [-PI/2, PI/2].
BoundaryInputsBySpecialCase ==
  (/\ call.fn = "vanDerGrinten4"
   /\ call.latLong.lat \in {0 - 90, 0, 90}
   /\ call.latLong.long \in {0 - 180, 0, 180})
    => /\ call.result.branch \in {"pole", "equator", "meridian"}
       /\ InDeclaredRange(call.result)

\* a pole on the antimeridian is answered by the pole case
PoleOnAntimeridian ==
  /\ call.fn = "vanDerGrinten4"
  /\ call.latLong = [lat |-> 90, long |-> 180]
  /\ call.result.branch = "pole"
  /\ call.result.x = 0
  /\ call.result.y = HALF_PI

\* C33: whatever latitude and longitude are passed in, and whichever
\* return statement is taken, x lies in [-PI, PI] and y in [-PI/2, PI/2].
EveryReturnClamped ==
  call.fn = "vanDerGrinten4" => InDeclaredRange(call.result)

====
